---- MODULE Spec2Model ----
(***************************************************************************)
(* Model of the retail decision pipeline (main.py and the agents under     *)
(* agents/): inventory classifier, replenishment calculator, pricing       *)
(* engine, conflict resolver, order commit, and the graph that sequences   *)
(* them over one AgentState.                                               *)
(*                                                                         *)
(* Conventions.                                                            *)
(*   - An optional value (Python None / pandas NaN / a missing row) is the *)
(*     empty sequence <<>>; a present value x is <<x>>.                    *)
(*   - Dates are day offsets from today (today = 0).                       *)
(*   - Prices are integer cents.                                           *)
(***************************************************************************)
EXTENDS Integers, Sequences, FiniteSets, TLC

VARIABLES
    \* --- persistence service (database/retail_data.db) ---
    inventory_monitoring,  \* entity -> None | Some(row)
    pricing_optimization,  \* entity -> None | Some(row)
    demand_forecast,       \* entity -> sequence of history rows [Date, SalesQuantity]
    forecast_results,      \* set of rows [e, date, model, qty], key (e, date, model)
    orders,                \* sequence of order rows, OrderID = position
    \* --- one run of the graph (main.py) ---
    state,                 \* AgentState
    pc,                    \* the node the stream executes next, "END" or "halted"
    trace,                 \* history: the nodes executed so far in this run
    resolution_log,        \* what resolve_conflicts_node logged in this run
    \* --- a run and its repetition under the same environment ---
    oracle,                \* None | Some(the answers the environment gives in every run)
    first_run,             \* None | Some(the final state of the first run)
    \* --- function-level harnesses ---
    inventory_data,        \* the record handed to check_inventory_status
    status_result,         \* None | Some(what check_inventory_status returned)
    repl_result,           \* None | Some(outcome of calculate_replenishment)
    price_in,              \* inputs of recommend_pricing_action
    price_result           \* None | Some(what recommend_pricing_action returned)

dbvars == <<inventory_monitoring, pricing_optimization, demand_forecast,
            forecast_results, orders>>
runvars == <<state, pc, trace, resolution_log>>
replayvars == <<oracle, first_run>>
harnessvars == <<inventory_data, status_result, repl_result, price_in, price_result>>
vars == <<dbvars, runvars, replayvars, harnessvars>>

None == <<>>
Some(x) == <<x>>
IsSome(o) == o /= <<>>
Val(o) == o[1]

(***************************************************************************)
(* Inventory classifier: agents/inventory_monitoring_agent.py              *)
(***************************************************************************)

\* Defaults of check_inventory_status(inventory_data, expiry_threshold_days=30,
\* excess_stock_multiplier=2.0).
ExpiryThresholdDays == 30
ExcessStockMultiplier == 2

\* ExpiryDate column as the classifier sees it: NULL/None, the empty string,
\* the placeholder 'Unknown', a string strptime rejects, or a '%Y-%m-%d' date.
NullDate == [kind |-> "null", off |-> 0]
EmptyDate == [kind |-> "empty", off |-> 0]
UnknownDate == [kind |-> "Unknown", off |-> 0]
BadDate == [kind |-> "bad", off |-> 0]
DateAt(d) == [kind |-> "date", off |-> d]

\* `if expiry_date_str and expiry_date_str != 'Unknown'`
ExpiryPresent(x) == x.kind \notin {"null", "empty", "Unknown"}

\* Mutant of StockFlags: the excess multiplier is applied to the stock level.
StockFlags_MultiplierOnStock(stock, rop) ==
    LET can_check_low_stock == IsSome(stock) /\ IsSome(rop)
        can_check_excess_stock == can_check_low_stock /\ Val(rop) > 0
    IN  IF ~IsSome(stock) THEN {"STOCK_LEVEL_UNKNOWN"}
        ELSE LET is_low == can_check_low_stock /\ Val(stock) <= Val(rop)
                 is_excess == can_check_excess_stock
                              /\ Val(stock) * ExcessStockMultiplier > Val(rop)
             IN  (IF is_low THEN {"LOW_STOCK"} ELSE {})
                 \cup (IF is_excess THEN {"EXCESS_STOCK"} ELSE {})
                 \cup (IF ~is_low /\ ~is_excess THEN {"OK"} ELSE {})
                 \cup (IF ~is_low /\ is_excess THEN {"OK"} ELSE {})

\* Mutant of StockFlags: LOW_STOCK tested with < instead of <=.
StockFlags_StrictLow(stock, rop) ==
    LET can_check_low_stock == IsSome(stock) /\ IsSome(rop)
        can_check_excess_stock == can_check_low_stock /\ Val(rop) > 0
    IN  IF ~IsSome(stock) THEN {"STOCK_LEVEL_UNKNOWN"}
        ELSE LET is_low == can_check_low_stock /\ Val(stock) < Val(rop)
                 is_excess == can_check_excess_stock
                              /\ Val(stock) > Val(rop) * ExcessStockMultiplier
             IN  (IF is_low THEN {"LOW_STOCK"} ELSE {})
                 \cup (IF is_excess THEN {"EXCESS_STOCK"} ELSE {})
                 \cup (IF ~is_low THEN {"OK"} ELSE {})

\* Mutant of StockFlags: OK only for a stock level that is neither low nor excess.
StockFlags_OkOnlyWhenNormal(stock, rop) ==
    LET can_check_low_stock == IsSome(stock) /\ IsSome(rop)
        can_check_excess_stock == can_check_low_stock /\ Val(rop) > 0
    IN  IF ~IsSome(stock) THEN {"STOCK_LEVEL_UNKNOWN"}
        ELSE LET is_low == can_check_low_stock /\ Val(stock) <= Val(rop)
                 is_excess == can_check_excess_stock
                              /\ Val(stock) > Val(rop) * ExcessStockMultiplier
             IN  (IF is_low THEN {"LOW_STOCK"} ELSE {})
                 \cup (IF is_excess THEN {"EXCESS_STOCK"} ELSE {})
                 \cup (IF ~is_low /\ ~is_excess THEN {"OK"} ELSE {})

\* Stock-level block, lines 52-76: the flags it adds.
StockFlags(stock, rop) ==
    LET can_check_low_stock == IsSome(stock) /\ IsSome(rop)
        can_check_excess_stock == can_check_low_stock /\ Val(rop) > 0
    IN  IF ~IsSome(stock) THEN {"STOCK_LEVEL_UNKNOWN"}
        ELSE LET is_low == can_check_low_stock /\ Val(stock) <= Val(rop)
                 is_excess == can_check_excess_stock
                              /\ Val(stock) > Val(rop) * ExcessStockMultiplier
             IN  (IF is_low THEN {"LOW_STOCK"} ELSE {})
                 \cup (IF is_excess THEN {"EXCESS_STOCK"} ELSE {})
                 \cup (IF ~is_low /\ ~is_excess THEN {"OK"} ELSE {})
                 \cup (IF ~is_low /\ is_excess THEN {"OK"} ELSE {})

\* Mutant of ExpiryFlags: a missing expiry date is flagged like an unparseable one.
ExpiryFlags_MissingInvalid(flags, x) ==
    IF ~ExpiryPresent(x) THEN flags \cup {"INVALID_EXPIRY_DATE"}
    ELSE IF x.kind = "bad" THEN flags \cup {"INVALID_EXPIRY_DATE"}
    ELSE IF x.off <= 0 THEN (flags \cup {"EXPIRED"}) \ {"OK"}
    ELSE IF x.off <= ExpiryThresholdDays THEN flags \cup {"NEAR_EXPIRY"}
    ELSE flags

\* Mutant of ExpiryFlags: EXPIRED does not discard OK.
ExpiryFlags_KeepOk(flags, x) ==
    IF ~ExpiryPresent(x) THEN flags
    ELSE IF x.kind = "bad" THEN flags \cup {"INVALID_EXPIRY_DATE"}
    ELSE IF x.off <= 0 THEN flags \cup {"EXPIRED"}
    ELSE IF x.off <= ExpiryThresholdDays THEN flags \cup {"NEAR_EXPIRY"}
    ELSE flags

\* Expiry block, lines 78-96, applied to the flags of the stock block.
ExpiryFlags(flags, x) ==
    IF ~ExpiryPresent(x) THEN flags
    ELSE IF x.kind = "bad" THEN flags \cup {"INVALID_EXPIRY_DATE"}
    ELSE IF x.off <= 0 THEN (flags \cup {"EXPIRED"}) \ {"OK"}
    ELSE IF x.off <= ExpiryThresholdDays THEN flags \cup {"NEAR_EXPIRY"}
    ELSE flags

\* Mutant of PrimaryStatus: NEAR_EXPIRY tested before LOW_STOCK.
PrimaryStatus_NearExpiryFirst(flags) ==
    IF "NO_DATA" \in flags THEN "NO_DATA"
    ELSE IF "STOCK_LEVEL_UNKNOWN" \in flags THEN "UNKNOWN"
    ELSE IF "EXPIRED" \in flags THEN "EXPIRED"
    ELSE IF "NEAR_EXPIRY" \in flags THEN "NEAR_EXPIRY"
    ELSE IF "LOW_STOCK" \in flags THEN "LOW_STOCK"
    ELSE IF "EXCESS_STOCK" \in flags THEN "EXCESS_STOCK"
    ELSE IF "OK" \in flags THEN "OK"
    ELSE "UNKNOWN"

\* Primary status chain, lines 99-107.
PrimaryStatus(flags) ==
    IF "NO_DATA" \in flags THEN "NO_DATA"
    ELSE IF "STOCK_LEVEL_UNKNOWN" \in flags THEN "UNKNOWN"
    ELSE IF "EXPIRED" \in flags THEN "EXPIRED"
    ELSE IF "LOW_STOCK" \in flags THEN "LOW_STOCK"
    ELSE IF "NEAR_EXPIRY" \in flags THEN "NEAR_EXPIRY"
    ELSE IF "EXCESS_STOCK" \in flags THEN "EXCESS_STOCK"
    ELSE IF "OK" \in flags THEN "OK"
    ELSE "UNKNOWN"

\* check_inventory_status(inventory_data) with the default parameters.
\* rec is None (no row) or Some(row).
check_inventory_status(rec) ==
    IF ~IsSome(rec)
    THEN [status |-> "NO_DATA", flags |-> {"NO_DATA"},
          product_id |-> None, store_id |-> None,
          stock_level |-> None, reorder_point |-> None]
    ELSE LET r == Val(rec)
             flags == ExpiryFlags(StockFlags(r.StockLevel, r.ReorderPoint), r.ExpiryDate)
         IN  [status |-> PrimaryStatus(flags), flags |-> flags,
              product_id |-> Some(r.ProductID), store_id |-> Some(r.StoreID),
              stock_level |-> r.StockLevel, reorder_point |-> r.ReorderPoint]

(***************************************************************************)
(* Arithmetic helpers                                                      *)
(***************************************************************************)

Max(a, b) == IF a >= b THEN a ELSE b

\* Python round() of the exact quotient n/d (d > 0, n >= 0): nearest, ties to even.
RoundHalfEven(n, d) ==
    LET q == n \div d
        r == n % d
    IN  IF 2 * r > d \/ (2 * r = d /\ q % 2 = 1) THEN q + 1 ELSE q

RECURSIVE SumQty(_)
SumQty(rows) ==
    IF rows = {} THEN 0
    ELSE LET r == CHOOSE x \in rows : TRUE
         IN  r.qty + SumQty(rows \ {r})

(***************************************************************************)
(* Replenishment calculator: agents/replenishment_agent.py                 *)
(***************************************************************************)

\* Mutant of get_forecast_data: the end date of the window is excluded.
get_forecast_data_EndExclusive(fc, pid, sid, start_date, end_date) ==
    SumQty({r \in fc : /\ r.e = <<pid, sid>>
                       /\ r.date >= start_date
                       /\ r.date < end_date})

\* get_forecast_data: SELECT SUM(ForecastedQuantity) ... WHERE ProductID = ? AND
\* StoreID = ? AND ForecastTargetDate BETWEEN start AND end; NULL (no row) is 0.
get_forecast_data(fc, pid, sid, start_date, end_date) ==
    SumQty({r \in fc : /\ r.e = <<pid, sid>>
                       /\ r.date >= start_date
                       /\ r.date <= end_date})

\* get_lead_time: the row's SupplierLeadTimeDays, 0 when the row or value is missing.
get_lead_time(inv, pid, sid) ==
    IF <<pid, sid>> \in DOMAIN inv /\ IsSome(inv[<<pid, sid>>])
       /\ IsSome(Val(inv[<<pid, sid>>]).SupplierLeadTimeDays)
    THEN Val(Val(inv[<<pid, sid>>]).SupplierLeadTimeDays)
    ELSE 0

\* The proposal dict built at lines 107-114 (OrderDate is a timestamp, left out).
ReplProposal(pid, sid, order_qty, lead_time_days) ==
    [ProductID |-> pid, StoreID |-> sid, QuantityOrdered |-> order_qty,
     Status |-> "Proposed", LeadTimeDays |-> lead_time_days]

\* Mutant of calculate_replenishment: with a positive lead time a proposal is
\* built whatever the quantity.
calculate_replenishment_EmitZero(inv, fc, item) ==
    IF "LOW_STOCK" \notin item.flags \/ ~IsSome(item.stock_level)
       \/ ~IsSome(item.reorder_point)
    THEN [raised |-> FALSE, proposal |-> None]
    ELSE LET pid == Val(item.product_id)
             sid == Val(item.store_id)
             stock == Val(item.stock_level)
             rop == Val(item.reorder_point)
             lead_time_days == get_lead_time(inv, pid, sid)
         IN  IF lead_time_days <= 0
             THEN [raised |-> Max(0, rop - stock) > 0, proposal |-> None]
             ELSE LET demand_during_lead_time ==
                          get_forecast_data(fc, pid, sid, 1, lead_time_days)
                      order_qty == Max(0, rop + demand_during_lead_time - stock)
                  IN  [raised |-> FALSE,
                       proposal |-> Some(ReplProposal(pid, sid, order_qty,
                                                      lead_time_days))]

\* calculate_replenishment(conn, inventory_status_item).  The outcome is
\* [raised, proposal]: raised = TRUE when the function ends in an exception.
\* With lead_time_days <= 0 the names demand_during_lead_time and target_stock are
\* never bound, and the print at line 96 reads them whenever order_qty > 0:
\* UnboundLocalError.
calculate_replenishment(inv, fc, item) ==
    IF "LOW_STOCK" \notin item.flags \/ ~IsSome(item.stock_level)
       \/ ~IsSome(item.reorder_point)
    THEN [raised |-> FALSE, proposal |-> None]
    ELSE LET pid == Val(item.product_id)
             sid == Val(item.store_id)
             stock == Val(item.stock_level)
             rop == Val(item.reorder_point)
             lead_time_days == get_lead_time(inv, pid, sid)
         IN  IF lead_time_days <= 0
             THEN LET order_qty == Max(0, rop - stock)
                  IN  IF order_qty > 0
                      THEN [raised |-> TRUE, proposal |-> None]
                      ELSE [raised |-> FALSE, proposal |-> None]
             ELSE LET demand_during_lead_time ==
                          get_forecast_data(fc, pid, sid, 1, lead_time_days)
                      target_stock == rop + demand_during_lead_time
                      order_qty == Max(0, target_stock - stock)
                  IN  IF order_qty > 0
                      THEN [raised |-> FALSE,
                            proposal |-> Some(ReplProposal(pid, sid, order_qty,
                                                           lead_time_days))]
                      ELSE [raised |-> FALSE, proposal |-> None]

(***************************************************************************)
(* Pricing engine: agents/pricing_optimizer_agent.py                       *)
(***************************************************************************)

\* Discounts in basis points (0.15, 0.10, 0.05) and the factors 1.05, 1.2, 1.1
\* scaled to integers.
NearExpiryDiscount == 1500
ExcessStockDiscount == 1000
CompetitorDiscount == 500
PriceIncreasePct == 105
NegativeSentimentPct == 120
CompetitorMarginPct == 110
MinReviewLength == 10

\* One entry of the Reason trail: a rule tag, with the label or the price it quotes.
Reason(tag, label, v) == [tag |-> tag, label |-> label, v |-> v]

\* Lines 84-100: the oracle is asked only for a review text longer than 10
\* characters that is not 'Unknown'; its answer counts only when it is one of
\* the three labels.
SentimentLabels == {Some("POSITIVE"), Some("NEGATIVE"), Some("NEUTRAL")}

SentimentAsked(reviews) == reviews.kind = "text" /\ reviews.len > MinReviewLength

\* Mutant of LlmSentiment: an answer outside the three labels counts as NEGATIVE.
LlmSentiment_OtherIsNegative(reviews, sentiment_result) ==
    IF SentimentAsked(reviews)
       /\ sentiment_result \in SentimentLabels
    THEN Val(sentiment_result)
    ELSE IF SentimentAsked(reviews) THEN "NEGATIVE"
    ELSE "NEUTRAL"

LlmSentiment(reviews, sentiment_result) ==
    IF SentimentAsked(reviews)
       /\ sentiment_result \in SentimentLabels
    THEN Val(sentiment_result)
    ELSE "NEUTRAL"

\* Mutant of FlagDiscount: the two flag discounts add up.
FlagDiscount_Additive(flags) ==
    (IF "NEAR_EXPIRY" \in flags THEN NearExpiryDiscount ELSE 0)
    + (IF "EXCESS_STOCK" \in flags THEN ExcessStockDiscount ELSE 0)

\* Lines 68-81: discount after the inventory-flag triggers.
FlagDiscount(flags) ==
    Max(IF "NEAR_EXPIRY" \in flags THEN NearExpiryDiscount ELSE 0,
        IF "EXCESS_STOCK" \in flags THEN ExcessStockDiscount ELSE 0)

\* Lines 106-112: discount after the competitor check.
\* current_price > competitor_price * 1.1
CompetitorLower(current_price, competitor_price) ==
    IsSome(competitor_price) /\ Val(competitor_price) /= 0
    /\ 100 * current_price > CompetitorMarginPct * Val(competitor_price)

\* competitor_price > current_price * 1.1 (the elif of line 113)
CompetitorHigher(current_price, competitor_price) ==
    IsSome(competitor_price) /\ Val(competitor_price) /= 0
    /\ ~CompetitorLower(current_price, competitor_price)
    /\ 100 * Val(competitor_price) > CompetitorMarginPct * current_price

DiscountPercentage(flags, current_price, competitor_price) ==
    IF CompetitorLower(current_price, competitor_price)
    THEN Max(FlagDiscount(flags), CompetitorDiscount)
    ELSE FlagDiscount(flags)

\* Mutant of PriceIncrease: the increase does not look at the discount.
PriceIncrease_IgnoresDiscount(flags, current_price, competitor_price, llm_sentiment) ==
    /\ CompetitorHigher(current_price, competitor_price)
    /\ llm_sentiment /= "NEGATIVE"

\* Lines 113-118: the increase branch.
PriceIncrease(flags, current_price, competitor_price, llm_sentiment) ==
    /\ CompetitorHigher(current_price, competitor_price)
    /\ DiscountPercentage(flags, current_price, competitor_price) = 0
    /\ llm_sentiment /= "NEGATIVE"

\* Lines 121-131: final_price, rounded to cents.
FinalPrice(flags, current_price, competitor_price, llm_sentiment) ==
    LET discount_percentage == DiscountPercentage(flags, current_price, competitor_price)
    IN  IF PriceIncrease(flags, current_price, competitor_price, llm_sentiment)
        THEN RoundHalfEven(current_price * PriceIncreasePct, 100)
        ELSE IF discount_percentage > 0
        THEN LET d == IF llm_sentiment = "NEGATIVE"
                      THEN (discount_percentage * NegativeSentimentPct) \div 100
                      ELSE discount_percentage
             IN  RoundHalfEven(current_price * (10000 - d), 10000)
        ELSE current_price

\* The Reason trail, in the order the rules append to it.
ReasonTrail(flags, reviews, sentiment_result, current_price, competitor_price) ==
    LET llm_sentiment == LlmSentiment(reviews, sentiment_result)
    IN  (IF "NEAR_EXPIRY" \in flags THEN <<Reason("Near Expiry", "", 0)>> ELSE <<>>)
        \o (IF "EXCESS_STOCK" \in flags THEN <<Reason("Excess Stock", "", 0)>> ELSE <<>>)
        \o (IF SentimentAsked(reviews)
               /\ sentiment_result \in SentimentLabels
            THEN <<Reason("ReviewSentiment", Val(sentiment_result), 0)>> ELSE <<>>)
        \o (IF IsSome(competitor_price) /\ Val(competitor_price) /= 0
            THEN <<Reason("CompPrice", "", Val(competitor_price))>> ELSE <<>>)
        \o (IF PriceIncrease(flags, current_price, competitor_price, llm_sentiment)
            THEN <<Reason("PriceIncrease", "", 0)>> ELSE <<>>)

\* Mutant of PriceChanged: the proposal is built whatever the final price.
PriceChanged_Always(final_price, current_price) == TRUE

\* `if final_price != current_price` (line 135)
PriceChanged(final_price, current_price) == final_price /= current_price

\* recommend_pricing_action(inventory_status_item, pricing_data) with the two
\* oracle answers it obtains as parameters: sentiment_result is what
\* get_ollama_completion returned (None | Some(text)), competitor_price what
\* get_competitor_price returned (None | Some(cents)).
recommend_pricing_action(item, pricing_data, sentiment_result, competitor_price) ==
    IF ~IsSome(pricing_data) THEN None
    ELSE IF ~IsSome(Val(pricing_data).Price) \/ Val(Val(pricing_data).Price) <= 0
    THEN None
    ELSE LET current_price == Val(Val(pricing_data).Price)
             reviews == Val(pricing_data).CustomerReviews
             llm_sentiment == LlmSentiment(reviews, sentiment_result)
             final_price == FinalPrice(item.flags, current_price,
                                       competitor_price, llm_sentiment)
         IN  IF PriceChanged(final_price, current_price)
             THEN Some([ProductID |-> Val(item.product_id),
                        StoreID |-> Val(item.store_id),
                        CurrentPrice |-> current_price,
                        RecommendedPrice |-> final_price,
                        Reason |-> ReasonTrail(item.flags, reviews, sentiment_result,
                                               current_price, competitor_price),
                        Status |-> "Proposed"])
             ELSE None

(***************************************************************************)
(* Entities and the state every specification starts from                  *)
(***************************************************************************)

\* (ProductID, StoreID) pairs of the model: one product in two stores.
E1 == <<1, 1>>
E2 == <<1, 2>>
Entities == {E1, E2}

\* AgentState as main.py creates it (lines 519-524).  A stage payload is
\* [kind, ...]: kind "None" is Python None.
NoPayload == [kind |-> "None"]
initial_state ==
    [items_to_process |-> None,
     data_ingestion_status |-> "None",
     forecast_results |-> NoPayload,
     inventory_status |-> NoPayload,
     replenishment_proposals |-> NoPayload,
     pricing_proposals |-> NoPayload,
     order_placement_results |-> NoPayload,
     error_message |-> None]

EmptyDb ==
    /\ inventory_monitoring = [e \in Entities |-> None]
    /\ pricing_optimization = [e \in Entities |-> None]
    /\ demand_forecast = [e \in Entities |-> <<>>]
    /\ forecast_results = {}
    /\ orders = <<>>

NoRun ==
    /\ state = initial_state
    /\ pc = "harness"
    /\ trace = <<>>
    /\ resolution_log = <<>>
    /\ oracle = None
    /\ first_run = None

InventoryRow(e, stock, rop, expiry, lead) ==
    [ProductID |-> e[1], StoreID |-> e[2], StockLevel |-> stock,
     ReorderPoint |-> rop, ExpiryDate |-> expiry, SupplierLeadTimeDays |-> lead]

OptInts(S) == {None} \cup {Some(x) : x \in S}

(***************************************************************************)
(* Forecast generator: utils/data_utils.py, tools/ml_model_tool.py,        *)
(* agents/demand_forecaster_agent.py                                       *)
(***************************************************************************)

\* model_used as it is composed at lines 83 and 111-119 of the forecaster
ModelNone == "ML_Tool_SimpleAvg+LLM_None"
ModelIncr == "ML_Tool_SimpleAvg+LLM_Incr"
ModelDecr == "ML_Tool_SimpleAvg+LLM_Decr"

\* A row of forecast_results
FcRow(e, date, model, qty) == [e |-> e, date |-> date, model |-> model, qty |-> qty]

ForecastDays == 7
HistoryDays == 90
DummyForecastValue == 10

RECURSIVE SumSales(_)
SumSales(rows) == IF rows = <<>> THEN 0 ELSE Head(rows).SalesQuantity + SumSales(Tail(rows))

RECURSIVE MaxDate(_)
MaxDate(rows) ==
    IF Len(rows) = 1 THEN rows[1].Date ELSE Max(rows[1].Date, MaxDate(Tail(rows)))

\* get_historical_data: the rows with Date BETWEEN today - history_days AND today.
InHistoryWindow(r) == r.Date >= 0 - HistoryDays /\ r.Date <= 0
get_historical_data(history) == SelectSeq(history, InHistoryWindow)

\* simple_average_forecast: forecast_days points of the rounded mean, anchored at
\* the day after the latest historical date; zeros from tomorrow without history.
simple_average_forecast(historical_df) ==
    IF historical_df = <<>>
    THEN [i \in 1..ForecastDays |-> <<i, 0>>]
    ELSE LET average_sales == RoundHalfEven(SumSales(historical_df), Len(historical_df))
             last_historical_date == MaxDate(historical_df)
         IN  [i \in 1..ForecastDays |-> <<last_historical_date + i, average_sales>>]

\* predict_demand: the trained-model placeholder when an artifact exists, None when
\* the fallback cannot connect, else the simple average.
predict_demand(trained, db_ok, history) ==
    IF trained THEN Some([i \in 1..ForecastDays |-> <<i, DummyForecastValue>>])
    ELSE IF ~db_ok THEN None
    ELSE Some(simple_average_forecast(get_historical_data(history)))

\* Lines 108-119 of run_demand_forecasting: factor (in tenths) and model name for
\* the oracle's answer.
AdjustmentTenths(adjustment_suggestion) ==
    IF adjustment_suggestion = Some("INCREASE") THEN 11
    ELSE IF adjustment_suggestion = Some("DECREASE") THEN 9
    ELSE 10

ModelUsed(adjustment_suggestion) ==
    IF adjustment_suggestion = Some("INCREASE") THEN ModelIncr
    ELSE IF adjustment_suggestion = Some("DECREASE") THEN ModelDecr
    ELSE ModelNone

\* Mutant of AdjustForecasts: the adjusted quantity is not floored at 0.
AdjustForecasts_NoFloor(generated_forecasts, adjustment_suggestion) ==
    [i \in DOMAIN generated_forecasts |->
        <<generated_forecasts[i][1],
          RoundHalfEven(generated_forecasts[i][2]
                        * AdjustmentTenths(adjustment_suggestion), 10)>>]

\* Line 122: max(0, int(round(qty * adjustment_factor))) for every point.
AdjustForecasts(generated_forecasts, adjustment_suggestion) ==
    [i \in DOMAIN generated_forecasts |->
        <<generated_forecasts[i][1],
          Max(0, RoundHalfEven(generated_forecasts[i][2]
                               * AdjustmentTenths(adjustment_suggestion), 10))>>]

\* Mutant of store_forecast_results: a conflicting row is added to, not replaced.
RECURSIVE store_forecast_results_Accumulate(_, _, _, _)
store_forecast_results_Accumulate(fc, e, forecasts, model_name) ==
    IF forecasts = <<>> THEN fc
    ELSE LET target_date == Head(forecasts)[1]
             qty == Head(forecasts)[2]
             hit == {r \in fc : r.e = e /\ r.date = target_date /\ r.model = model_name}
             before == IF hit = {} THEN 0 ELSE (CHOOSE r \in hit : TRUE).qty
         IN  store_forecast_results_Accumulate(
                 (fc \ hit) \cup {FcRow(e, target_date, model_name, before + qty)},
                 e, Tail(forecasts), model_name)

\* Mutant of store_forecast_results: a plain INSERT, nothing is replaced.
RECURSIVE store_forecast_results_Insert(_, _, _, _)
store_forecast_results_Insert(fc, e, forecasts, model_name) ==
    IF forecasts = <<>> THEN fc
    ELSE store_forecast_results_Insert(
             fc \cup {FcRow(e, Head(forecasts)[1], model_name, Head(forecasts)[2])},
             e, Tail(forecasts), model_name)

\* store_forecast_results: INSERT OR REPLACE under UNIQUE(ProductID, StoreID,
\* ForecastTargetDate, ForecastModel).
RECURSIVE store_forecast_results(_, _, _, _)
store_forecast_results(fc, e, forecasts, model_name) ==
    IF forecasts = <<>> THEN fc
    ELSE LET target_date == Head(forecasts)[1]
             qty == Head(forecasts)[2]
             kept == {r \in fc : ~(r.e = e /\ r.date = target_date /\ r.model = model_name)}
         IN  store_forecast_results(kept \cup {FcRow(e, target_date, model_name, qty)},
                                    e, Tail(forecasts), model_name)

ForecastPayload(kind, processed_count, success_count, failed_items, forecasts) ==
    [kind |-> kind, processed_count |-> processed_count,
     success_count |-> success_count, failed_items |-> failed_items,
     forecasts |-> forecasts]

\* run_demand_forecasting(items): acc is [fc, results]; env[e] is what the
\* environment answers while e is processed: [trained, db_ok, answer, store_ok].
RECURSIVE run_demand_forecasting(_, _, _, _)
run_demand_forecasting(items, env, history, acc) ==
    IF items = <<>> THEN acc
    ELSE LET e == Head(items)
             generated == predict_demand(env[e].trained, env[e].db_ok, history[e])
             final_forecasts ==
                 IF IsSome(generated)
                 THEN Some(AdjustForecasts(Val(generated), env[e].answer))
                 ELSE None
             store_success == IsSome(final_forecasts) /\ env[e].store_ok
             r == acc.results
         IN  run_demand_forecasting(Tail(items), env, history,
                [fc |-> IF store_success
                        THEN store_forecast_results(acc.fc, e, Val(final_forecasts),
                                                    ModelUsed(env[e].answer))
                        ELSE acc.fc,
                 results |->
                    ForecastPayload("Results", r.processed_count + 1,
                        IF store_success THEN r.success_count + 1 ELSE r.success_count,
                        IF store_success THEN r.failed_items
                        ELSE Append(r.failed_items, e),
                        Append(r.forecasts,
                               [e |-> e,
                                forecasts |-> IF store_success THEN final_forecasts
                                              ELSE None]))])

(***************************************************************************)
(* Stage loops of the agents                                               *)
(***************************************************************************)

\* One entry of the inventory_status dict: key -> value.  is_dict is FALSE for the
\* entries "error" / "status" of an error payload, whose value is a string.
StatusEntry(key, item) == [key |-> key, is_dict |-> TRUE, item |-> item]
NonDictEntry == [key |-> <<0, 0>>, is_dict |-> FALSE,
                 item |-> check_inventory_status(None)]

InventoryPayload(kind, entries, processed_count) ==
    [kind |-> kind, entries |-> entries, processed_count |-> processed_count]

\* run_inventory_monitoring(items) with the connection open; read_fail are the
\* entities whose SELECT fails (get_inventory_data then returns None).
RECURSIVE MonitorLoop(_, _, _)
MonitorLoop(items, inv, read_fail) ==
    IF items = <<>> THEN <<>>
    ELSE LET e == Head(items)
             inventory_row == IF e \in read_fail THEN None ELSE inv[e]
         IN  <<StatusEntry(e, check_inventory_status(inventory_row))>>
             \o MonitorLoop(Tail(items), inv, read_fail)

run_inventory_monitoring(items, inv, db_ok, read_fail) ==
    IF ~db_ok THEN InventoryPayload("ConnError", <<NonDictEntry>>, 0)
    ELSE InventoryPayload("Results", MonitorLoop(items, inv, read_fail), Len(items))

\* {k: v for k, v in inv_status.items() if k != 'summary'}
StatusToProcess(inv_status) == inv_status.entries

ProposalPayload(kind, processed_count, proposal_count, proposals) ==
    [kind |-> kind, processed_count |-> processed_count,
     proposal_count |-> proposal_count, proposals |-> proposals]

\* The loop of run_replenishment_calculation: [raised, processed_count, proposals].
\* An exception of calculate_replenishment leaves the loop (try/finally, no except).
RECURSIVE ReplenishmentLoop(_, _, _, _)
ReplenishmentLoop(entries, inv, fc, acc) ==
    IF entries = <<>> \/ acc.raised THEN acc
    ELSE LET entry == Head(entries)
             outcome == IF entry.is_dict
                        THEN calculate_replenishment(inv, fc, entry.item)
                        ELSE [raised |-> FALSE, proposal |-> None]
         IN  ReplenishmentLoop(Tail(entries), inv, fc,
                [raised |-> outcome.raised,
                 processed_count |-> acc.processed_count + 1,
                 proposals |-> acc.proposals \o outcome.proposal])

\* run_replenishment_calculation(inventory_status_dict): [raised, payload].
run_replenishment_calculation(entries, inv, fc, db_ok) ==
    IF ~db_ok THEN [raised |-> FALSE, payload |-> ProposalPayload("ConnError", 0, 0, <<>>)]
    ELSE LET done == ReplenishmentLoop(entries, inv, fc,
                        [raised |-> FALSE, processed_count |-> 0, proposals |-> <<>>])
         IN  [raised |-> done.raised,
              payload |-> ProposalPayload("Results", done.processed_count,
                                          Len(done.proposals), done.proposals)]

\* The loop of run_pricing_optimization; env[e] is [sentiment, competitor].
RECURSIVE PricingLoop(_, _, _)
PricingLoop(entries, pricing, env) ==
    IF entries = <<>> THEN <<>>
    ELSE LET entry == Head(entries)
             proposal ==
                 IF entry.is_dict /\ IsSome(entry.item.product_id)
                    /\ IsSome(entry.item.store_id)
                 THEN recommend_pricing_action(entry.item, pricing[entry.key],
                          env[entry.key].sentiment, env[entry.key].competitor)
                 ELSE None
         IN  proposal \o PricingLoop(Tail(entries), pricing, env)

run_pricing_optimization(entries, pricing, db_ok, env) ==
    IF ~db_ok THEN ProposalPayload("ConnError", 0, 0, <<>>)
    ELSE LET proposed_actions == PricingLoop(entries, pricing, env)
         IN  ProposalPayload("Results", Len(entries), Len(proposed_actions),
                             proposed_actions)

\* Mutant of OrderRow: the expected delivery date ignores the lead time.
OrderRow_NoLeadTime(order_id, proposal) ==
    [OrderID |-> order_id, ProductID |-> proposal.ProductID,
     StoreID |-> proposal.StoreID, QuantityOrdered |-> proposal.QuantityOrdered,
     OrderDate |-> 0, ExpectedDeliveryDate |-> 0,
     Status |-> "Placed"]

\* place_simulated_order: the row inserted into orders (status 'Placed', expected
\* delivery = order date + lead time) and the dict returned with lastrowid.
OrderRow(order_id, proposal) ==
    [OrderID |-> order_id, ProductID |-> proposal.ProductID,
     StoreID |-> proposal.StoreID, QuantityOrdered |-> proposal.QuantityOrdered,
     OrderDate |-> 0, ExpectedDeliveryDate |-> 0 + proposal.LeadTimeDays,
     Status |-> "Placed"]

PlacementResult(row) ==
    [OrderID |-> row.OrderID, ProductID |-> row.ProductID, StoreID |-> row.StoreID,
     QuantityOrdered |-> row.QuantityOrdered,
     ExpectedDeliveryDate |-> row.ExpectedDeliveryDate, Status |-> "Placed"]

\* `if not all([pid, sid, qty])`
MissingOrderFields(proposal) ==
    proposal.ProductID = 0 \/ proposal.StoreID = 0 \/ proposal.QuantityOrdered = 0

\* Mutant of SupplierLoop: the loop ends at the first order that is not placed.
RECURSIVE SupplierLoop_StopOnFailure(_, _, _, _)
SupplierLoop_StopOnFailure(proposed_orders, i, insert_fail, acc) ==
    IF i > Len(proposed_orders) THEN acc
    ELSE LET proposal == proposed_orders[i]
             row == OrderRow(Len(acc.orders) + 1, proposal)
         IN  IF MissingOrderFields(proposal) \/ i \in insert_fail
             THEN acc
             ELSE SupplierLoop_StopOnFailure(proposed_orders, i + 1, insert_fail,
                      [orders |-> Append(acc.orders, row),
                       placed |-> Append(acc.placed, PlacementResult(row))])

\* The loop of run_supplier_interaction: acc is [orders, placed]; insert_fail are
\* the positions whose INSERT raises sqlite3.Error (rolled back, None returned).
RECURSIVE SupplierLoop(_, _, _, _)
SupplierLoop(proposed_orders, i, insert_fail, acc) ==
    IF i > Len(proposed_orders) THEN acc
    ELSE LET proposal == proposed_orders[i]
             row == OrderRow(Len(acc.orders) + 1, proposal)
         IN  IF MissingOrderFields(proposal) \/ i \in insert_fail
             THEN SupplierLoop(proposed_orders, i + 1, insert_fail, acc)
             ELSE SupplierLoop(proposed_orders, i + 1, insert_fail,
                      [orders |-> Append(acc.orders, row),
                       placed |-> Append(acc.placed, PlacementResult(row))])

PlacementPayload(kind, processed_count, placed_count, placed_orders) ==
    [kind |-> kind, processed_count |-> processed_count,
     placed_count |-> placed_count, placed_orders |-> placed_orders]

\* Mutant of run_supplier_interaction: the orders table is rewritten by each run.
run_supplier_interaction_Rewrite(proposed_orders, ord, db_ok, insert_fail) ==
    IF ~db_ok THEN [orders |-> ord, payload |-> PlacementPayload("ConnError", 0, 0, <<>>)]
    ELSE LET done == SupplierLoop(proposed_orders, 1, insert_fail,
                                  [orders |-> <<>>, placed |-> <<>>])
         IN  [orders |-> done.orders,
              payload |-> PlacementPayload("Results", Len(proposed_orders),
                                           Len(done.placed), done.placed)]

\* run_supplier_interaction(proposed_orders): [orders, payload].
run_supplier_interaction(proposed_orders, ord, db_ok, insert_fail) ==
    IF ~db_ok THEN [orders |-> ord, payload |-> PlacementPayload("ConnError", 0, 0, <<>>)]
    ELSE LET done == SupplierLoop(proposed_orders, 1, insert_fail,
                                  [orders |-> ord, placed |-> <<>>])
         IN  [orders |-> done.orders,
              payload |-> PlacementPayload("Results", Len(proposed_orders),
                                           Len(done.placed), done.placed)]

(***************************************************************************)
(* SpecClassify: check_inventory_status over bounded records               *)
(***************************************************************************)

MaxStock == 7
MaxRop == 3
BelowZero == 1
ExpiryHorizon == 32

ClassifyExpiry ==
    {NullDate, EmptyDate, UnknownDate, BadDate}
    \cup {DateAt(d) : d \in (0 - BelowZero)..ExpiryHorizon}

ClassifyInputs ==
    {None} \cup
    {Some(InventoryRow(E1, stock, rop, x, None)) :
        stock \in OptInts((0 - BelowZero)..MaxStock),
        rop \in OptInts((0 - BelowZero)..MaxRop),
        x \in ClassifyExpiry}

InitClassify ==
    /\ EmptyDb /\ NoRun
    /\ inventory_data \in ClassifyInputs
    /\ status_result = None
    /\ repl_result = None
    /\ price_in = None
    /\ price_result = None

Classify ==
    /\ status_result = None
    /\ status_result' = Some(check_inventory_status(inventory_data))
    /\ UNCHANGED <<dbvars, runvars, replayvars, inventory_data, repl_result, price_in, price_result>>

NextClassify == Classify
SpecClassify == InitClassify /\ [][NextClassify]_vars

(***************************************************************************)
(* SpecRepl: calculate_replenishment over bounded inventory rows and       *)
(* forecast tables                                                         *)
(***************************************************************************)

MaxLead == 2
MaxDaily == 5

ReplStocks == {0, 40, 50, 60, 127, 130}
ReplRops == {0, 60, 127}
ReplLeads == (0..MaxLead) \cup {11}
FcHorizons == {0, 7, 11}
FcModelSets == {{ModelNone}, {ModelNone, ModelIncr}}

\* A stored forecast table: q units a day for E1 on the days 0..h under each model
\* of ms, and one row of another entity inside every window.
FcTable(q, h, ms) ==
    {FcRow(E1, d, m, q) : d \in 0..h, m \in ms} \cup {FcRow(E2, 1, ModelNone, q + 1)}

InitRepl ==
    /\ NoRun
    /\ \E stock \in OptInts(ReplStocks), rop \in OptInts(ReplRops),
          lead \in OptInts(ReplLeads) :
          inventory_monitoring =
              [e \in Entities |->
                  IF e = E1 THEN Some(InventoryRow(E1, stock, rop, NullDate, lead))
                  ELSE None]
    /\ \E q \in 0..MaxDaily, h \in FcHorizons, ms \in FcModelSets :
          forecast_results = FcTable(q, h, ms)
    /\ pricing_optimization = [e \in Entities |-> None]
    /\ demand_forecast = [e \in Entities |-> <<>>]
    /\ orders = <<>>
    /\ inventory_data = None
    /\ status_result = None
    /\ repl_result = None
    /\ price_in = None
    /\ price_result = None

\* run_inventory_monitoring's loop body followed by run_replenishment_calculation's,
\* for the one entity.
ReplCalc ==
    /\ repl_result = None
    /\ LET item == check_inventory_status(inventory_monitoring[E1])
       IN  /\ status_result' = Some(item)
           /\ repl_result' =
                  Some(calculate_replenishment(inventory_monitoring, forecast_results, item))
    /\ UNCHANGED <<dbvars, runvars, replayvars, inventory_data, price_in, price_result>>

NextRepl == ReplCalc
SpecRepl == InitRepl /\ [][NextRepl]_vars

(***************************************************************************)
(* SpecPrice: recommend_pricing_action over bounded inputs                 *)
(***************************************************************************)

\* Prices in cents.  They avoid the amounts whose discounted value is an exact
\* half cent, where the binary float decides the rounding.
PriceCents == {0, 1, 1999, 2000, 10000}
NoReviews == [kind |-> "null", len |-> 0]
UnknownReviews == [kind |-> "Unknown", len |-> 7]
ReviewText(n) == [kind |-> "text", len |-> n]
ReviewInputs == {NoReviews, UnknownReviews, ReviewText(MinReviewLength),
                 ReviewText(MinReviewLength + 1)}
SentimentAnswers == SentimentLabels \cup {Some("MIXED"), None}
\* fetch_mock_competitor_price: None, or a price in 10.00 .. 100.00
CompetitorAnswers == {None, Some(1000), Some(1818), Some(1819), Some(2200), Some(7000),
                      Some(2201), Some(10000)}

PricingRow(e, price, reviews) ==
    [ProductID |-> e[1], StoreID |-> e[2], Price |-> price, CustomerReviews |-> reviews]

\* Status items as the classifier produces them.
PriceItems ==
    {check_inventory_status(Some(InventoryRow(E1, Some(stock), Some(2), x, None))) :
        stock \in {1, 3, 5}, x \in {NullDate, DateAt(0), DateAt(1)}}

InitPrice ==
    /\ EmptyDb /\ NoRun
    /\ inventory_data = None
    /\ status_result = None
    /\ repl_result = None
    /\ \E item \in PriceItems, price \in OptInts(PriceCents), reviews \in ReviewInputs,
          sentiment_result \in SentimentAnswers, competitor_price \in CompetitorAnswers,
          has_row \in BOOLEAN :
          price_in = Some([item |-> item,
                           pricing_data |-> IF has_row
                                            THEN Some(PricingRow(E1, price, reviews))
                                            ELSE None,
                           sentiment_result |-> sentiment_result,
                           competitor_price |-> competitor_price])
    /\ price_result = None

PriceCalc ==
    /\ price_result = None
    /\ LET in == Val(price_in)
       IN  price_result' = Some(recommend_pricing_action(in.item, in.pricing_data,
                                    in.sentiment_result, in.competitor_price))
    /\ UNCHANGED <<dbvars, runvars, replayvars, inventory_data, status_result, repl_result, price_in>>

NextPrice == PriceCalc
SpecPrice == InitPrice /\ [][NextPrice]_vars

(***************************************************************************)
(* Spec: one run of the graph of main.py                                   *)
(***************************************************************************)

\* build_graph: the entry point and the edges, in the order they are added.
EntryPoint == "data_ingestion"

\* Mutant of NextNode: the order commit is wired right after the replenishment
\* calculator, before the pricing engine and the conflict resolver.
NextNode_CommitBeforePricing(node) ==
    CASE node = "data_ingestion" -> "demand_forecast"
      [] node = "demand_forecast" -> "inventory_monitor"
      [] node = "inventory_monitor" -> "replenishment_calc"
      [] node = "replenishment_calc" -> "supplier_interact"
      [] node = "supplier_interact" -> "pricing_optimiser"
      [] node = "pricing_optimiser" -> "resolve_conflicts"
      [] node = "resolve_conflicts" -> "END"

NextNode(node) ==
    CASE node = "data_ingestion" -> "demand_forecast"
      [] node = "demand_forecast" -> "inventory_monitor"
      [] node = "inventory_monitor" -> "replenishment_calc"
      [] node = "replenishment_calc" -> "pricing_optimiser"
      [] node = "pricing_optimiser" -> "resolve_conflicts"
      [] node = "resolve_conflicts" -> "supplier_interact"
      [] node = "supplier_interact" -> "END"

\* Mutant of HaltAfter: the stream loop never breaks.
HaltAfter_Never(step_name, step_state) == FALSE

\* The break of the stream loop (lines 569-572):
\* step_name == 'data_ingestion' and isinstance(items_proc, list) and not items_proc
HaltAfter(step_name, step_state) ==
    /\ step_name = "data_ingestion"
    /\ IsSome(step_state.items_to_process)
    /\ Val(step_state.items_to_process) = <<>>

\* One iteration of `for step_output in app.stream(initial_state)`: the node has
\* returned step_state; the loop breaks or the graph moves along the edge.
StreamStep(node) ==
    /\ trace' = Append(trace, node)
    /\ pc' = IF HaltAfter(node, state') THEN "halted" ELSE NextNode(node)

\* `if not items` on items_to_process (None or an empty list)
NoItems(items) == ~IsSome(items) \/ Val(items) = <<>>

\* get_existing_items(limit=5): the pairs with an inventory row and a history row
\* dated today - history_days or later; [] when the query fails.
DiscoveryLimit == 5
EntityOrder == <<E1, E2>>

HasRecentHistory(history) ==
    \E i \in DOMAIN history : history[i].Date >= 0 - HistoryDays

get_existing_items(inv, hist, query_ok) ==
    LET Eligible(e) == IsSome(inv[e]) /\ HasRecentHistory(hist[e])
        found == SelectSeq(EntityOrder, Eligible)
    IN  IF ~query_ok THEN <<>>
        ELSE IF Len(found) > DiscoveryLimit THEN SubSeq(found, 1, DiscoveryLimit)
        ELSE found

\* The three CSV files as load_and_insert_data writes them (after cleaning); a
\* None in a numeric column is a cell that is not a number.
CsvInventory(e) ==
    IF e = E1
    THEN {None,
          Some(InventoryRow(E1, Some(40), Some(60), NullDate, Some(0))),
          Some(InventoryRow(E1, Some(50), Some(127), DateAt(10), Some(2))),
          Some(InventoryRow(E1, Some(130), Some(60), NullDate, Some(1))),
          Some(InventoryRow(E1, None, Some(60), NullDate, Some(1)))}
    ELSE {Some(InventoryRow(E2, Some(40), Some(60), NullDate, None)),
          Some(InventoryRow(E2, Some(50), Some(127), NullDate, Some(11))),
          Some(InventoryRow(E2, Some(60), Some(60), DateAt(-1), Some(2)))}

HistoryRow(date, sales) == [Date |-> date, SalesQuantity |-> sales]

CsvHistory(e) ==
    IF e = E1 THEN {<<>>, <<HistoryRow(-1, 5)>>}
    ELSE {<<HistoryRow(-91, 3)>>, <<HistoryRow(-2, 0), HistoryRow(-1, 0)>>}

CsvPricing(e) ==
    IF e = E1 THEN {None, Some(PricingRow(E1, Some(2000), ReviewText(MinReviewLength + 1)))}
    ELSE {Some(PricingRow(E2, Some(10000), NoReviews))}

CsvTables == {"demand_forecast", "inventory_monitoring", "pricing_optimization"}

\* What the environment answers during the forecast stage.
ForecastAnswer(trained, db_ok, answer, store_ok) ==
    [trained |-> trained, db_ok |-> db_ok, answer |-> answer, store_ok |-> store_ok]

ForecastEnvs ==
    {[e \in Entities |-> ForecastAnswer(FALSE, TRUE, None, TRUE)],
     [e \in Entities |-> ForecastAnswer(FALSE, TRUE, Some("INCREASE"), TRUE)],
     [e \in Entities |-> IF e = E1 THEN ForecastAnswer(FALSE, FALSE, None, TRUE)
                         ELSE ForecastAnswer(FALSE, TRUE, Some("DECREASE"), TRUE)],
     [e \in Entities |-> IF e = E1 THEN ForecastAnswer(TRUE, TRUE, Some("NONE"), TRUE)
                         ELSE ForecastAnswer(FALSE, TRUE, None, FALSE)]}

\* What the environment answers during the classifier stage: [db_ok, read_fail].
MonitorEnvs ==
    {[db_ok |-> TRUE, read_fail |-> {}], [db_ok |-> TRUE, read_fail |-> {E1}],
     [db_ok |-> FALSE, read_fail |-> {}]}

\* What the two advisory oracles answer during the pricing stage.
PricingAnswer(sentiment, competitor) == [sentiment |-> sentiment, competitor |-> competitor]

PricingEnvs ==
    {[e \in Entities |-> PricingAnswer(None, None)],
     [e \in Entities |-> PricingAnswer(Some("NEGATIVE"), Some(1000))],
     [e \in Entities |-> PricingAnswer(Some("MIXED"), Some(1000))],
     [e \in Entities |-> PricingAnswer(None, Some(10000))]}

\* What the persistence service answers during order commit: [db_ok, insert_fail].
SupplierEnvs ==
    {[db_ok |-> TRUE, insert_fail |-> {}], [db_ok |-> TRUE, insert_fail |-> {1}],
     [db_ok |-> FALSE, insert_fail |-> {}]}

Init ==
    /\ EmptyDb
    /\ state = initial_state
    /\ pc = EntryPoint
    /\ trace = <<>>
    /\ resolution_log = <<>>
    /\ oracle = None
    /\ first_run = None
    /\ inventory_data = None
    /\ status_result = None
    /\ repl_result = None
    /\ price_in = None
    /\ price_result = None

\* data_ingestion_node: run_data_ingestion (three CSV files replace their tables),
\* then get_existing_items.  Everything run_data_ingestion and get_existing_items
\* can raise is caught inside them, so the node's except branch is not taken.
data_ingestion_node_given(conn_ok, loaded, query_ok, inv, hist, prc) ==
    /\ pc = "data_ingestion"
    /\ LET status == IF ~conn_ok THEN "Failed"
                     ELSE IF loaded = CsvTables THEN "Success"
                     ELSE "Partial or Failed"
           Replaced(table_name) == conn_ok /\ table_name \in loaded
       IN  /\ demand_forecast' =
                  IF Replaced("demand_forecast") THEN hist ELSE demand_forecast
           /\ inventory_monitoring' =
                  IF Replaced("inventory_monitoring") THEN inv ELSE inventory_monitoring
           /\ pricing_optimization' =
                  IF Replaced("pricing_optimization") THEN prc ELSE pricing_optimization
           /\ IF status /= "Success"
              THEN state' = [state EXCEPT
                      !.data_ingestion_status = status,
                      !.error_message = Some("Data ingestion failed or partially failed."),
                      !.items_to_process = Some(<<>>)]
              ELSE LET items_from_db ==
                           get_existing_items(inventory_monitoring', demand_forecast',
                                              query_ok)
                   IN  IF items_from_db = <<>>
                       THEN state' = [state EXCEPT
                               !.data_ingestion_status = status,
                               !.items_to_process = Some(<<>>),
                               !.error_message =
                                   Some("Ingestion successful, but NO valid Product/Store pairs found.")]
                       ELSE state' = [state EXCEPT
                               !.data_ingestion_status = status,
                               !.items_to_process = Some(items_from_db),
                               !.error_message = None]
    /\ StreamStep("data_ingestion")
    /\ UNCHANGED <<forecast_results, orders, resolution_log, harnessvars, replayvars>>

\* The three tables a set of CSV files holds, one row choice per entity.
CsvLoad(i1, i2, h1, h2, p1, p2) ==
    [inv |-> [e \in Entities |-> IF e = E1 THEN i1 ELSE i2],
     hist |-> [e \in Entities |-> IF e = E1 THEN h1 ELSE h2],
     prc |-> [e \in Entities |-> IF e = E1 THEN p1 ELSE p2]]

data_ingestion_node ==
    \E conn_ok \in BOOLEAN, loaded \in SUBSET CsvTables, query_ok \in BOOLEAN,
       i1 \in CsvInventory(E1), i2 \in CsvInventory(E2),
       h1 \in CsvHistory(E1), h2 \in CsvHistory(E2),
       p1 \in CsvPricing(E1), p2 \in CsvPricing(E2) :
       LET csv == CsvLoad(i1, i2, h1, h2, p1, p2)
       IN  data_ingestion_node_given(conn_ok, loaded, query_ok, csv.inv, csv.hist, csv.prc)

\* demand_forecast_node
demand_forecast_node_given(env) ==
    /\ pc = "demand_forecast"
    /\ LET items == state.items_to_process
       IN  IF NoItems(items)
           THEN /\ state' = [state EXCEPT !.forecast_results =
                                ForecastPayload("Skipped", 0, 0, <<>>, <<>>)]
                /\ UNCHANGED forecast_results
           ELSE LET done == run_demand_forecasting(Val(items), env, demand_forecast,
                                [fc |-> forecast_results,
                                 results |-> ForecastPayload("Results", 0, 0, <<>>, <<>>)])
                IN  /\ state' = [state EXCEPT !.forecast_results = done.results]
                    /\ forecast_results' = done.fc
    /\ StreamStep("demand_forecast")
    /\ UNCHANGED <<inventory_monitoring, pricing_optimization, demand_forecast, orders,
                   resolution_log, harnessvars, replayvars>>

demand_forecast_node == \E env \in ForecastEnvs : demand_forecast_node_given(env)

\* inventory_monitor_node
inventory_monitor_node_given(env) ==
    /\ pc = "inventory_monitor"
    /\ LET items == state.items_to_process
       IN  IF NoItems(items)
           THEN state' = [state EXCEPT !.inventory_status =
                             InventoryPayload("Skipped", <<>>, 0)]
           ELSE state' = [state EXCEPT !.inventory_status =
                             run_inventory_monitoring(Val(items), inventory_monitoring,
                                                      env.db_ok, env.read_fail)]
    /\ StreamStep("inventory_monitor")
    /\ UNCHANGED <<dbvars, resolution_log, harnessvars, replayvars>>

inventory_monitor_node == \E env \in MonitorEnvs : inventory_monitor_node_given(env)

\* `not inv_status or inv_status.get("status") == "Skipped"`
NoValidStatus(inv_status) == inv_status.kind \in {"None", "Skipped"}

\* replenishment_node
replenishment_node_given(db_ok) ==
    /\ pc = "replenishment_calc"
    /\ LET inv_status == state.inventory_status
       IN  IF NoValidStatus(inv_status) \/ StatusToProcess(inv_status) = <<>>
           THEN state' = [state EXCEPT !.replenishment_proposals =
                             ProposalPayload("Skipped", 0, 0, <<>>)]
           ELSE LET results == run_replenishment_calculation(
                                   StatusToProcess(inv_status), inventory_monitoring,
                                   forecast_results, db_ok)
                IN  IF results.raised
                    THEN state' = [state EXCEPT
                            !.replenishment_proposals =
                                ProposalPayload("ExecutionError", 0, 0, <<>>),
                            !.error_message = Some("Node failed: replenishment_calc")]
                    ELSE state' = [state EXCEPT
                            !.replenishment_proposals = results.payload]
    /\ StreamStep("replenishment_calc")
    /\ UNCHANGED <<dbvars, resolution_log, harnessvars, replayvars>>

replenishment_node == \E db_ok \in BOOLEAN : replenishment_node_given(db_ok)

\* pricing_optimization_node
\* Mutant of pricing_optimization_node: the node empties the work list it was given.
pricing_optimization_node_ConsumesItems(db_ok, env) ==
    /\ pc = "pricing_optimiser"
    /\ LET inv_status == state.inventory_status
       IN  IF NoValidStatus(inv_status) \/ StatusToProcess(inv_status) = <<>>
           THEN state' = [state EXCEPT !.pricing_proposals =
                             ProposalPayload("Skipped", 0, 0, <<>>)]
           ELSE state' = [state EXCEPT
                             !.pricing_proposals =
                                 run_pricing_optimization(StatusToProcess(inv_status),
                                     pricing_optimization, db_ok, env),
                             !.items_to_process = Some(<<>>)]
    /\ StreamStep("pricing_optimiser")
    /\ UNCHANGED <<dbvars, resolution_log, harnessvars, replayvars>>

pricing_optimization_node_given(db_ok, env) ==
    /\ pc = "pricing_optimiser"
    /\ LET inv_status == state.inventory_status
       IN  IF NoValidStatus(inv_status) \/ StatusToProcess(inv_status) = <<>>
           THEN state' = [state EXCEPT !.pricing_proposals =
                             ProposalPayload("Skipped", 0, 0, <<>>)]
           ELSE state' = [state EXCEPT !.pricing_proposals =
                             run_pricing_optimization(StatusToProcess(inv_status),
                                 pricing_optimization, db_ok, env)]
    /\ StreamStep("pricing_optimiser")
    /\ UNCHANGED <<dbvars, resolution_log, harnessvars, replayvars>>

pricing_optimization_node ==
    \E db_ok \in BOOLEAN, env \in PricingEnvs : pricing_optimization_node_given(db_ok, env)

\* .get("proposed_orders", []) / .get("proposed_actions", []) on a payload
Proposed(payload) == IF payload.kind = "None" THEN <<>> ELSE payload.proposals

\* Mutant of resolve_conflicts_node: the orders of the overlapping products are
\* dropped.
resolve_conflicts_node_DropOverlap ==
    /\ pc = "resolve_conflicts"
    /\ LET final_orders == Proposed(state.replenishment_proposals)
           final_pricing == Proposed(state.pricing_proposals)
           items_needing_order ==
               {final_orders[i].ProductID : i \in DOMAIN final_orders}
           items_getting_discount ==
               {final_pricing[i].ProductID :
                   i \in {j \in DOMAIN final_pricing :
                            final_pricing[j].RecommendedPrice
                                < final_pricing[j].CurrentPrice}}
           conflicting_items == items_needing_order \cap items_getting_discount
           Kept(p) == p.ProductID \notin conflicting_items
       IN  /\ resolution_log' = IF conflicting_items /= {}
                                THEN <<conflicting_items>> ELSE <<>>
           /\ state' = [state EXCEPT !.replenishment_proposals.proposals =
                            SelectSeq(final_orders, Kept)]
    /\ StreamStep("resolve_conflicts")
    /\ UNCHANGED <<dbvars, harnessvars, replayvars>>

\* resolve_conflicts_node: overlap by ProductID between the orders and the
\* discounts, logged; final_orders is written back into the payload.
resolve_conflicts_node ==
    /\ pc = "resolve_conflicts"
    /\ LET final_orders == Proposed(state.replenishment_proposals)
           final_pricing == Proposed(state.pricing_proposals)
           items_needing_order ==
               {final_orders[i].ProductID : i \in DOMAIN final_orders}
           items_getting_discount ==
               {final_pricing[i].ProductID :
                   i \in {j \in DOMAIN final_pricing :
                            final_pricing[j].RecommendedPrice
                                < final_pricing[j].CurrentPrice}}
           conflicting_items == items_needing_order \cap items_getting_discount
       IN  /\ resolution_log' = IF conflicting_items /= {}
                                THEN <<conflicting_items>> ELSE <<>>
           /\ state' = [state EXCEPT !.replenishment_proposals.proposals = final_orders]
    /\ StreamStep("resolve_conflicts")
    /\ UNCHANGED <<dbvars, harnessvars, replayvars>>

\* supplier_interaction_node
supplier_interaction_node_given(env) ==
    /\ pc = "supplier_interact"
    /\ LET proposed_orders == Proposed(state.replenishment_proposals)
       IN  IF proposed_orders = <<>>
           THEN /\ state' = [state EXCEPT !.order_placement_results =
                                PlacementPayload("Skipped", 0, 0, <<>>)]
                /\ UNCHANGED orders
           ELSE LET results == run_supplier_interaction(proposed_orders, orders,
                                   env.db_ok, env.insert_fail)
                IN  /\ state' = [state EXCEPT
                            !.order_placement_results = results.payload]
                    /\ orders' = results.orders
    /\ StreamStep("supplier_interact")
    /\ UNCHANGED <<inventory_monitoring, pricing_optimization, demand_forecast,
                   forecast_results, resolution_log, harnessvars, replayvars>>

supplier_interaction_node == \E env \in SupplierEnvs : supplier_interaction_node_given(env)

Next ==
    \/ data_ingestion_node
    \/ demand_forecast_node
    \/ inventory_monitor_node
    \/ replenishment_node
    \/ pricing_optimization_node
    \/ resolve_conflicts_node
    \/ supplier_interaction_node

Spec == Init /\ [][Next]_vars

(***************************************************************************)
(* SpecForecast: run_demand_forecasting run again and again over the same  *)
(* entities and history                                                    *)
(***************************************************************************)

MaxForecastRuns == 2

\* What the environment may answer for one entity in one forecast run.
ForecastRunAnswers ==
    {ForecastAnswer(FALSE, TRUE, None, TRUE),
     ForecastAnswer(FALSE, TRUE, Some("INCREASE"), TRUE),
     ForecastAnswer(FALSE, TRUE, Some("DECREASE"), TRUE),
     ForecastAnswer(TRUE, TRUE, Some("NONE"), TRUE),
     ForecastAnswer(FALSE, TRUE, None, FALSE)}

\* The sales histories of the forecast runs: those of the CSV files and, for the
\* first entity, one whose sales are net returns.
ForecastHistories(e) ==
    IF e = E1 THEN CsvHistory(E1) \cup {<<HistoryRow(-1, -3)>>} ELSE CsvHistory(e)

InitForecast ==
    /\ inventory_monitoring = [e \in Entities |-> None]
    /\ pricing_optimization = [e \in Entities |-> None]
    /\ \E h1 \in ForecastHistories(E1), h2 \in ForecastHistories(E2) :
          demand_forecast = [e \in Entities |-> IF e = E1 THEN h1 ELSE h2]
    /\ forecast_results = {}
    /\ orders = <<>>
    /\ NoRun
    /\ inventory_data = None
    /\ status_result = None
    /\ repl_result = None
    /\ price_in = None
    /\ price_result = None

\* One more run of run_demand_forecasting(items) over both entities.
ForecastRun ==
    /\ Len(trace) < MaxForecastRuns
    /\ \E env \in [Entities -> ForecastRunAnswers] :
          LET done == run_demand_forecasting(EntityOrder, env, demand_forecast,
                          [fc |-> forecast_results,
                           results |-> ForecastPayload("Results", 0, 0, <<>>, <<>>)])
          IN  /\ state' = [state EXCEPT !.forecast_results = done.results]
              /\ forecast_results' = done.fc
    /\ trace' = Append(trace, "demand_forecast")
    /\ UNCHANGED <<inventory_monitoring, pricing_optimization, demand_forecast, orders,
                   pc, resolution_log, harnessvars, replayvars>>

NextForecast == ForecastRun
SpecForecast == InitForecast /\ [][NextForecast]_vars

(***************************************************************************)
(* SpecReplay: main.py run twice on the same day over the same CSV files,  *)
(* the environment answering the second run as it answered the first       *)
(***************************************************************************)

\* The answers of one environment: the CSV files, and what the forecaster's
\* model and advisor, the store and the pricing advisors answer in each stage.
ReplayOracles ==
    {[csv |-> CsvLoad(i1, i2, h1, h2, p1, p2), forecast |-> f, monitor |-> m,
      pricing |-> p, supplier |-> s] :
        i1 \in CsvInventory(E1), i2 \in CsvInventory(E2),
        h1 \in CsvHistory(E1), h2 \in CsvHistory(E2),
        p1 \in CsvPricing(E1) \ {None}, p2 \in CsvPricing(E2),
        f \in ForecastEnvs,
        m \in {env \in MonitorEnvs : env.db_ok},
        p \in PricingEnvs,
        s \in {env \in SupplierEnvs : env.db_ok}}

InitReplay ==
    /\ EmptyDb
    /\ state = initial_state
    /\ pc = EntryPoint
    /\ trace = <<>>
    /\ resolution_log = <<>>
    /\ \E o \in ReplayOracles : oracle = Some(o)
    /\ first_run = None
    /\ inventory_data = None
    /\ status_result = None
    /\ repl_result = None
    /\ price_in = None
    /\ price_result = None

ReplayIngestion ==
    data_ingestion_node_given(TRUE, CsvTables, TRUE, Val(oracle).csv.inv,
                              Val(oracle).csv.hist, Val(oracle).csv.prc)
ReplayForecast == demand_forecast_node_given(Val(oracle).forecast)
ReplayMonitor == inventory_monitor_node_given(Val(oracle).monitor)
ReplayReplenishment == replenishment_node_given(TRUE)
ReplayPricing == pricing_optimization_node_given(TRUE, Val(oracle).pricing)
ReplaySupplier == supplier_interaction_node_given(Val(oracle).supplier)

\* main.py is started again: a fresh initial_state over the database the first
\* run left behind.
SecondRun ==
    /\ pc \in {"END", "halted"}
    /\ first_run = None
    /\ first_run' = Some(state)
    /\ state' = initial_state
    /\ pc' = EntryPoint
    /\ trace' = <<>>
    /\ resolution_log' = <<>>
    /\ UNCHANGED <<dbvars, oracle, harnessvars>>

NextReplay ==
    \/ ReplayIngestion
    \/ ReplayForecast
    \/ ReplayMonitor
    \/ ReplayReplenishment
    \/ ReplayPricing
    \/ resolve_conflicts_node
    \/ ReplaySupplier
    \/ SecondRun

SpecReplay == InitReplay /\ [][NextReplay]_vars

(***************************************************************************)
(* Properties of the classifier (SpecClassify)                             *)
(***************************************************************************)

Classified == IsSome(status_result)
BothNumeric ==
    /\ IsSome(inventory_data)
    /\ IsSome(Val(inventory_data).StockLevel)
    /\ IsSome(Val(inventory_data).ReorderPoint)
InStock == Val(Val(inventory_data).StockLevel)
InRop == Val(Val(inventory_data).ReorderPoint)

\* C5: for every record whose stock and reorder point are both numeric, the
\* classifier sets LOW_STOCK iff stock <= reorder_point, and EXCESS_STOCK iff
\* reorder_point > 0 and stock > reorder_point * 2.0.
C5_StockFlagRules ==
    (Classified /\ BothNumeric) =>
        /\ ("LOW_STOCK" \in Val(status_result).flags) <=> (InStock <= InRop)
        /\ ("EXCESS_STOCK" \in Val(status_result).flags)
              <=> (InRop > 0 /\ InStock > 2 * InRop)

\* C5 witness: a classified record with numeric stock above twice its positive
\* reorder point, flagged EXCESS_STOCK and not LOW_STOCK.
C5_Witness ==
    /\ Classified /\ BothNumeric
    /\ InRop > 0 /\ InStock > 2 * InRop
    /\ "EXCESS_STOCK" \in Val(status_result).flags
    /\ "LOW_STOCK" \notin Val(status_result).flags

PriorityList == <<"NO_DATA", "STOCK_LEVEL_UNKNOWN", "EXPIRED", "LOW_STOCK",
                  "NEAR_EXPIRY", "EXCESS_STOCK", "OK">>

\* The first member of the priority list present in flags is the i-th.
FirstPresent(flags, i) ==
    /\ PriorityList[i] \in flags
    /\ \A j \in 1..(i - 1) : PriorityList[j] \notin flags

\* C6 (as claimed): the primary status of every classification result is the
\* first member of the priority list present in its flag set.
C6_PrimaryIsFirstFlag ==
    Classified =>
        \E i \in 1..Len(PriorityList) :
            /\ FirstPresent(Val(status_result).flags, i)
            /\ Val(status_result).status = PriorityList[i]

\* C6 (amended): the primary status is the first member of the priority list
\* present in the flag set, except that a result whose first present flag is
\* STOCK_LEVEL_UNKNOWN carries the primary status "UNKNOWN".
C6_PrimaryIsFirstFlagOrUnknown ==
    Classified =>
        \E i \in 1..Len(PriorityList) :
            /\ FirstPresent(Val(status_result).flags, i)
            /\ Val(status_result).status =
                  IF PriorityList[i] = "STOCK_LEVEL_UNKNOWN" THEN "UNKNOWN"
                  ELSE PriorityList[i]

\* C6 witness: a record without a numeric stock level, classified with the flag
\* STOCK_LEVEL_UNKNOWN and the primary status "UNKNOWN".
C6_Witness ==
    /\ Classified
    /\ IsSome(inventory_data) /\ ~IsSome(Val(inventory_data).StockLevel)
    /\ "STOCK_LEVEL_UNKNOWN" \in Val(status_result).flags
    /\ Val(status_result).status = "UNKNOWN"

(***************************************************************************)
(* Properties of the replenishment calculator (SpecRepl)                   *)
(***************************************************************************)

ReplDone == IsSome(repl_result)
ReplRow == Val(inventory_monitoring[E1])
\* The entity is LOW_STOCK with known numeric stock and reorder point.
ReplTriggered ==
    /\ ReplDone
    /\ "LOW_STOCK" \in Val(status_result).flags
    /\ IsSome(ReplRow.StockLevel) /\ IsSome(ReplRow.ReorderPoint)
ReplStock == Val(ReplRow.StockLevel)
ReplRop == Val(ReplRow.ReorderPoint)
\* lead_time_days, 0 when unavailable
ReplLead ==
    IF IsSome(ReplRow.SupplierLeadTimeDays) THEN Val(ReplRow.SupplierLeadTimeDays) ELSE 0
ReplProposed == Val(repl_result).proposal

\* Sum of the stored forecast quantities of entity e over the target dates 1..n.
RECURSIVE DemandOverDays(_, _, _)
DemandOverDays(fc, e, n) ==
    IF n <= 0 THEN 0
    ELSE DemandOverDays(fc, e, n - 1) + SumQty({r \in fc : r.e = e /\ r.date = n})

\* C8: for a LOW_STOCK entity with known stock and reorder point whose
\* lead_time_days is <= 0 (or unavailable), order_qty = max(0, reorder_point -
\* stock) and, when that is > 0, a proposal carrying that quantity is returned
\* (stock 40, reorder point 60, lead time 0: a proposal of 20).
C8_FallbackPolicyProposal ==
    (ReplTriggered /\ ReplLead <= 0 /\ ReplRop - ReplStock > 0) =>
        /\ ~Val(repl_result).raised
        /\ IsSome(ReplProposed)
        /\ Val(ReplProposed).QuantityOrdered = ReplRop - ReplStock

\* C9: for a LOW_STOCK entity with lead_time_days > 0 the proposal quantity is
\* max(0, round(reorder_point + D - stock)), D the sum of the stored forecast
\* quantities with target date in today+1 .. today+lead_time_days; a quantity of 0
\* gives no proposal; the proposal carries LeadTimeDays; stock 50, reorder point
\* 127, lead time 11 and D = 55 give 132 with LeadTimeDays = 11.
C9_LeadTimePolicy ==
    (ReplTriggered /\ ReplLead > 0) =>
        LET D == DemandOverDays(forecast_results, E1, ReplLead)
            qty == Max(0, ReplRop + D - ReplStock)
        IN  /\ ~Val(repl_result).raised
            /\ (qty > 0) <=> IsSome(ReplProposed)
            /\ IsSome(ReplProposed) =>
                  /\ Val(ReplProposed).QuantityOrdered = qty
                  /\ Val(ReplProposed).LeadTimeDays = ReplLead
            /\ (ReplStock = 50 /\ ReplRop = 127 /\ ReplLead = 11 /\ D = 55) =>
                  /\ IsSome(ReplProposed)
                  /\ Val(ReplProposed).QuantityOrdered = 132
                  /\ Val(ReplProposed).LeadTimeDays = 11

\* C9 witness: the worked example, computed.
C9_Witness ==
    /\ ReplTriggered
    /\ ReplStock = 50 /\ ReplRop = 127 /\ ReplLead = 11
    /\ DemandOverDays(forecast_results, E1, 11) = 55
    /\ IsSome(ReplProposed)
    /\ Val(ReplProposed).QuantityOrdered = 132

(***************************************************************************)
(* Properties of the pricing engine (SpecPrice)                            *)
(***************************************************************************)

PriceDone == IsSome(price_result)
PriceIn == Val(price_in)
ValidPrice ==
    /\ IsSome(PriceIn.pricing_data)
    /\ IsSome(Val(PriceIn.pricing_data).Price)
    /\ Val(Val(PriceIn.pricing_data).Price) > 0
InPrice == Val(Val(PriceIn.pricing_data).Price)
\* The final price the engine computes for the inputs of this state.
InFinalPrice ==
    FinalPrice(PriceIn.item.flags, InPrice, PriceIn.competitor_price,
               LlmSentiment(Val(PriceIn.pricing_data).CustomerReviews,
                            PriceIn.sentiment_result))

\* C10: with a valid current price a pricing proposal is emitted iff the computed
\* final price differs from the current price; every proposal has
\* RecommendedPrice /= CurrentPrice; the final price is never negative.
C10_ProposalIffPriceChanged ==
    (PriceDone /\ ValidPrice) =>
        /\ IsSome(Val(price_result)) <=> (InFinalPrice /= InPrice)
        /\ InFinalPrice >= 0
        /\ IsSome(Val(price_result)) =>
              /\ Val(Val(price_result)).CurrentPrice = InPrice
              /\ Val(Val(price_result)).RecommendedPrice = InFinalPrice
              /\ Val(Val(price_result)).RecommendedPrice /= Val(Val(price_result)).CurrentPrice
              /\ Val(Val(price_result)).RecommendedPrice >= 0

\* C10 witness: a valid price for which a discount rule fired and a proposal with
\* a lower recommended price was emitted.
C10_Witness ==
    /\ PriceDone /\ ValidPrice
    /\ IsSome(Val(price_result))
    /\ Val(Val(price_result)).RecommendedPrice < Val(Val(price_result)).CurrentPrice

(***************************************************************************)
(* Properties of a run of the graph (Spec)                                 *)
(***************************************************************************)

Executed(node) == \E i \in DOMAIN trace : trace[i] = node
StageOrder == <<"data_ingestion", "demand_forecast", "inventory_monitor",
                "replenishment_calc", "pricing_optimiser", "resolve_conflicts",
                "supplier_interact">>
StatusEntries == state.inventory_status.entries
ReplProposals == state.replenishment_proposals.proposals
\* Entry en of the inventory status is a LOW_STOCK entity with known numeric stock
\* and reorder point.
Triggered(en) ==
    /\ en.is_dict
    /\ "LOW_STOCK" \in en.item.flags
    /\ IsSome(en.item.stock_level) /\ IsSome(en.item.reorder_point)
HasProposal(e) ==
    \E i \in DOMAIN ReplProposals :
        <<ReplProposals[i].ProductID, ReplProposals[i].StoreID>> = e
\* order_qty of a triggered entry by the two policies: reorder point plus the
\* demand over the lead time (none when the lead time is not positive) minus stock.
PolicyOrderQty(en) ==
    LET lead == get_lead_time(inventory_monitoring, en.key[1], en.key[2])
    IN  Max(0, Val(en.item.reorder_point)
               + DemandOverDays(forecast_results, en.key, lead)
               - Val(en.item.stock_level))

\* C1 (as claimed): a failure while one entity is processed in the replenishment
\* loop is non-fatal: after the stage, every entity for which the calculator
\* yields a proposal has that proposal in the stage's payload.
C1_EntityFailureKeepsOthers ==
    (Executed("replenishment_calc")
     /\ state.replenishment_proposals.kind \notin {"ConnError", "Skipped"}) =>
        \A j \in DOMAIN StatusEntries :
            LET en == StatusEntries[j]
                outcome == calculate_replenishment(inventory_monitoring,
                                                   forecast_results, en.item)
            IN  (en.is_dict /\ IsSome(outcome.proposal)) =>
                    \E i \in DOMAIN ReplProposals :
                        ReplProposals[i] = Val(outcome.proposal)

\* C2 (as claimed): when a stage cannot open its connection to the persistence
\* service the run halts at that stage: no later stage executes and the error
\* slot of the state is set.
C2_UnreachableStoreHalts ==
    /\ (state.inventory_status.kind = "ConnError") =>
           (~Executed("replenishment_calc") /\ IsSome(state.error_message))
    /\ (state.replenishment_proposals.kind = "ConnError") =>
           (~Executed("pricing_optimiser") /\ IsSome(state.error_message))
    /\ (state.pricing_proposals.kind = "ConnError") =>
           (~Executed("resolve_conflicts") /\ IsSome(state.error_message))
    /\ (state.order_placement_results.kind = "ConnError") =>
           IsSome(state.error_message)

\* C3: if the eligible-entity list is empty after ingestion, the run halts at
\* once: no later stage executes, the error slot is set, and no forecast row or
\* order record is written.
C3_EmptyListHalts ==
    (Executed("data_ingestion") /\ state.items_to_process = Some(<<>>)) =>
        /\ pc = "halted"
        /\ trace = <<"data_ingestion">>
        /\ IsSome(state.error_message)
        /\ forecast_results = {}
        /\ orders = <<>>
        /\ state.forecast_results = NoPayload
        /\ state.order_placement_results = NoPayload

\* C3 witness: ingestion succeeded, discovery found no eligible entity, and the
\* run is halted.
C3_Witness ==
    /\ state.data_ingestion_status = "Success"
    /\ state.items_to_process = Some(<<>>)
    /\ pc = "halted"

\* C4: the stages execute in the fixed order ingestion, forecast, classifier,
\* replenishment, pricing, conflict resolver, order commit, and no order record
\* is persisted before the pricing stage and the conflict resolver have completed.
C4_FixedStageOrder ==
    /\ Len(trace) <= Len(StageOrder)
    /\ \A i \in DOMAIN trace : trace[i] = StageOrder[i]
    /\ pc \in {"halted", "END"} \/ (Len(trace) < Len(StageOrder)
                                     /\ pc = StageOrder[Len(trace) + 1])
    /\ (orders /= <<>>) =>
           (Executed("pricing_optimiser") /\ Executed("resolve_conflicts"))

\* C4 witness: a run that went through all seven stages and persisted an order.
C4_Witness ==
    /\ pc = "END"
    /\ trace = StageOrder
    /\ orders /= <<>>

\* C7: after the replenishment stage every proposal of its payload has
\* QuantityOrdered > 0 and status "Proposed" and belongs to a LOW_STOCK entity
\* with known numeric stock and reorder point; an entity whose order_qty is 0 has
\* no proposal (order_qty is never negative).
C7_ProposalsWellFormed ==
    Executed("replenishment_calc") =>
        /\ \A i \in DOMAIN ReplProposals :
               /\ ReplProposals[i].QuantityOrdered > 0
               /\ ReplProposals[i].Status = "Proposed"
               /\ \E j \in DOMAIN StatusEntries :
                      /\ Triggered(StatusEntries[j])
                      /\ StatusEntries[j].key
                             = <<ReplProposals[i].ProductID, ReplProposals[i].StoreID>>
        /\ \A j \in DOMAIN StatusEntries :
               (Triggered(StatusEntries[j]) /\ PolicyOrderQty(StatusEntries[j]) = 0) =>
                   ~HasProposal(StatusEntries[j].key)

\* C7 witness: after the replenishment stage one LOW_STOCK entity has a proposal
\* and another LOW_STOCK entity, whose order_qty is 0, has none.
C7_Witness ==
    /\ Executed("replenishment_calc")
    /\ ReplProposals /= <<>>
    /\ \E j \in DOMAIN StatusEntries :
           /\ Triggered(StatusEntries[j])
           /\ PolicyOrderQty(StatusEntries[j]) = 0
           /\ ~HasProposal(StatusEntries[j].key)

\* The price the engine settled on: the recommended price of the proposal, the
\* current price when there is no proposal.
OutPrice ==
    IF IsSome(Val(price_result)) THEN Val(Val(price_result)).RecommendedPrice
    ELSE InPrice
InNegative ==
    LlmSentiment(Val(PriceIn.pricing_data).CustomerReviews, PriceIn.sentiment_result)
        = "NEGATIVE"
\* The discounts (basis points) of the triggers that fired for the inputs.
FiredDiscounts ==
    (IF "NEAR_EXPIRY" \in PriceIn.item.flags THEN {1500} ELSE {})
    \cup (IF "EXCESS_STOCK" \in PriceIn.item.flags THEN {1000} ELSE {})
    \cup (IF IsSome(PriceIn.competitor_price)
              /\ 10 * InPrice > 11 * Val(PriceIn.competitor_price)
          THEN {500} ELSE {})
\* The price after a discount of d basis points, scaled by 1.2 on NEGATIVE sentiment.
Discounted(d) ==
    RoundHalfEven(InPrice * (10000 - (IF InNegative THEN (d * 12) \div 10 ELSE d)), 10000)

\* C11: the discount is the maximum, not the sum, of the triggers that fired (0.15
\* NEAR_EXPIRY, 0.10 EXCESS_STOCK, 0.05 current price more than 10% above the
\* competitor); price 100 against competitor 70 without flags and without
\* negative sentiment gives 95.00; both flags together give 0.15.
C11_DiscountIsMaxOfTriggers ==
    (PriceDone /\ ValidPrice /\ FiredDiscounts /= {}) =>
        /\ \E d \in FiredDiscounts :
               /\ \A other \in FiredDiscounts : other <= d
               /\ OutPrice = Discounted(d)
        /\ ({"NEAR_EXPIRY", "EXCESS_STOCK"} \subseteq PriceIn.item.flags) =>
               OutPrice = Discounted(1500)
        /\ (InPrice = 10000 /\ PriceIn.competitor_price = Some(7000)
            /\ PriceIn.item.flags \cap {"NEAR_EXPIRY", "EXCESS_STOCK"} = {}
            /\ ~InNegative) =>
               OutPrice = 9500

\* C11 witness: both flags and a competitor more than 10% cheaper fired at once on
\* a price of 100.00, and 85.00 was recommended.
C11_Witness ==
    /\ PriceDone /\ ValidPrice
    /\ FiredDiscounts = {1500, 1000, 500}
    /\ InPrice = 10000 /\ ~InNegative
    /\ OutPrice = 8500

(***************************************************************************)
(* Further properties of the classifier (SpecClassify)                     *)
(***************************************************************************)

InExpiry == Val(inventory_data).ExpiryDate
OutFlags == Val(status_result).flags
\* The record has numeric stock above its numeric reorder point and a parseable
\* expiry date.
StockAboveRopWithDate ==
    /\ Classified /\ BothNumeric
    /\ InStock > InRop
    /\ InExpiry.kind = "date"

\* C12: for a record with numeric stock above its reorder point, an expiry date at
\* or before now gives EXPIRED without OK and the primary status EXPIRED; a date
\* after now within expiry_threshold_days gives NEAR_EXPIRY and not EXPIRED; a
\* later date gives neither expiry flag.
C12_ExpiryClassification ==
    StockAboveRopWithDate =>
        /\ (InExpiry.off <= 0) =>
               /\ "EXPIRED" \in OutFlags
               /\ "OK" \notin OutFlags
               /\ Val(status_result).status = "EXPIRED"
        /\ (InExpiry.off > 0 /\ InExpiry.off <= ExpiryThresholdDays) =>
               /\ "NEAR_EXPIRY" \in OutFlags
               /\ "EXPIRED" \notin OutFlags
        /\ (InExpiry.off > ExpiryThresholdDays) =>
               /\ "NEAR_EXPIRY" \notin OutFlags
               /\ "EXPIRED" \notin OutFlags

\* C12 witness: nominal stock with an expiry date of yesterday, classified EXPIRED
\* without OK.
C12_Witness ==
    /\ StockAboveRopWithDate
    /\ InExpiry.off = -1
    /\ InRop > 0 /\ InStock <= 2 * InRop
    /\ OutFlags = {"EXPIRED"}
    /\ Val(status_result).status = "EXPIRED"

(***************************************************************************)
(* Properties of repeated forecast runs (SpecForecast)                     *)
(***************************************************************************)

ForecastModels == {ModelNone, ModelIncr, ModelDecr}
LatestForecasts == state.forecast_results.forecasts

\* C13: forecast persistence is an idempotent upsert: after any number of forecast
\* runs the table holds one row per (ProductID, StoreID, target date, model name),
\* and every point stored by the latest run is the quantity the table holds for
\* its key.
C13_ForecastUpsert ==
    /\ \A r1, r2 \in forecast_results :
           (r1.e = r2.e /\ r1.date = r2.date /\ r1.model = r2.model) => r1 = r2
    /\ (trace /= <<>>) =>
           \A i \in DOMAIN LatestForecasts :
               IsSome(LatestForecasts[i].forecasts) =>
                   \E model \in ForecastModels :
                       \A k \in DOMAIN Val(LatestForecasts[i].forecasts) :
                           FcRow(LatestForecasts[i].e,
                                 Val(LatestForecasts[i].forecasts)[k][1], model,
                                 Val(LatestForecasts[i].forecasts)[k][2])
                               \in forecast_results

\* C13 witness: after two runs the row of day 0 still holds the quantity 5 of the
\* first run while the row of day 1, stored by both runs under the same model
\* name, holds the quantity 10 of the second run.
C13_Witness ==
    /\ Len(trace) = 2
    /\ FcRow(E1, 0, ModelNone, 5) \in forecast_results
    /\ FcRow(E1, 1, ModelNone, 10) \in forecast_results
    /\ Cardinality({r \in forecast_results : r.e = E1 /\ r.model = ModelNone}) = 8

(***************************************************************************)
(* Properties of a repeated run (SpecReplay)                               *)
(***************************************************************************)

RunEnded == pc \in {"END", "halted"}
BothRunsEnded == IsSome(first_run) /\ RunEnded

\* The flags of every classified entity, by key, in a final state.
FlagsOf(st) ==
    LET entries == IF st.inventory_status.kind = "None" THEN <<>>
                   ELSE st.inventory_status.entries
    IN  {<<entries[i].key, entries[i].item.flags>> :
            i \in {j \in DOMAIN entries : entries[j].is_dict}}

\* C14: two runs over the same persisted inputs, on the same day, with an
\* environment that gives the same answers, end with the same classification
\* flags per entity, the same replenishment proposals and the same pricing
\* proposals.
C14_RepeatedRunSameResults ==
    BothRunsEnded =>
        /\ FlagsOf(state) = FlagsOf(Val(first_run))
        /\ Proposed(state.replenishment_proposals)
               = Proposed(Val(first_run).replenishment_proposals)
        /\ Proposed(state.pricing_proposals)
               = Proposed(Val(first_run).pricing_proposals)

\* Both runs reached the end with orders and price changes proposed, the second
\* one over the forecasts and orders the first one stored.
C14_Witness ==
    /\ BothRunsEnded
    /\ pc = "END"
    /\ Proposed(state.replenishment_proposals) /= <<>>
    /\ Proposed(state.pricing_proposals) /= <<>>
    /\ FlagsOf(state) /= {}
    /\ Len(orders) >= 2

\* The environment of this run persists every order it is given.
PersistenceSucceeds == IsSome(oracle) /\ Val(oracle).supplier.insert_fail = {}

\* Order record o and returned result res are the commit of proposal p.
CommitOf(o, res, p) ==
    /\ o.ProductID = p.ProductID
    /\ o.StoreID = p.StoreID
    /\ o.QuantityOrdered = p.QuantityOrdered
    /\ o.Status = "Placed"
    /\ o.ExpectedDeliveryDate = o.OrderDate + p.LeadTimeDays
    /\ res.OrderID = o.OrderID
    /\ res.ExpectedDeliveryDate = o.ExpectedDeliveryDate

C16_ResolverPassesThrough ==
    [][pc = "resolve_conflicts" =>
          /\ Proposed(state'.replenishment_proposals)
                 = Proposed(state.replenishment_proposals)
          /\ Proposed(state'.pricing_proposals) = Proposed(state.pricing_proposals)]_vars

\* The resolver has run over orders and price changes and logged an overlap.
C16_Witness ==
    /\ Executed("resolve_conflicts")
    /\ resolution_log /= <<>>
    /\ Proposed(state.replenishment_proposals) /= <<>>
    /\ Proposed(state.pricing_proposals) /= <<>>

\* The payload a stage left in the state.
PayloadOf(node) ==
    CASE node = "demand_forecast" -> state.forecast_results
      [] node = "inventory_monitor" -> state.inventory_status
      [] node = "replenishment_calc" -> state.replenishment_proposals
      [] node = "pricing_optimiser" -> state.pricing_proposals
      [] node = "supplier_interact" -> state.order_placement_results
      [] OTHER -> NoPayload

\* The stages of this run that recorded an error: the store was unreachable or
\* the stage's code raised.
FailedStages ==
    {i \in DOMAIN StageOrder :
        /\ Executed(StageOrder[i])
        /\ PayloadOf(StageOrder[i]).kind \in {"ConnError", "ExecutionError"}}

FirstFailedStage == StageOrder[CHOOSE i \in FailedStages : \A j \in FailedStages : i <= j]

\* C17: when two or more stages of a run each record an error, the error channel
\* of the final state holds the error of the first of them.
C17_FirstErrorKept ==
    (RunEnded /\ Cardinality(FailedStages) >= 2) =>
        /\ IsSome(state.error_message)
        /\ Val(state.error_message) = "Node failed: " \o FirstFailedStage

(***************************************************************************)
(* Properties of the classifier on records that are not clean              *)
(* (SpecClassify)                                                          *)
(***************************************************************************)

\* The record exists and its stock level or its reorder point is not a number.
CoercionFailed ==
    /\ Classified
    /\ IsSome(inventory_data)
    /\ \/ ~IsSome(Val(inventory_data).StockLevel)
       \/ ~IsSome(Val(inventory_data).ReorderPoint)

StockCheckFlags == {"LOW_STOCK", "EXCESS_STOCK", "OK"}

\* C18: a record whose stock level or reorder point is not a number is flagged
\* STOCK_LEVEL_UNKNOWN and gets none of LOW_STOCK, EXCESS_STOCK and OK.
C18_CoercionFailureIsUnknown ==
    CoercionFailed =>
        /\ "STOCK_LEVEL_UNKNOWN" \in OutFlags
        /\ OutFlags \cap StockCheckFlags = {}

ExpiryMissing == InExpiry.kind \in {"null", "empty", "Unknown"}
ExpiryUnparseable == InExpiry.kind = "bad"
ClassifiedRecord == Classified /\ IsSome(inventory_data)

\* The flags of the same record with an expiry date beyond the threshold window:
\* the flags of its stock level alone.
FlagsWithoutExpiryIssue ==
    check_inventory_status(
        Some([Val(inventory_data) EXCEPT
                 !.ExpiryDate = DateAt(ExpiryThresholdDays + 1)])).flags

\* C19 as stated: a record whose expiry date is missing or unparseable is flagged
\* INVALID_EXPIRY_DATE and keeps the stock-based flags it would otherwise have.
C19_MissingOrUnparseableFlagged ==
    (ClassifiedRecord /\ (ExpiryMissing \/ ExpiryUnparseable)) =>
        /\ "INVALID_EXPIRY_DATE" \in OutFlags
        /\ OutFlags \ {"INVALID_EXPIRY_DATE"} = FlagsWithoutExpiryIssue

\* C19 amended: INVALID_EXPIRY_DATE is set exactly when the expiry date is present
\* and unparseable; a missing expiry date (null, empty, 'Unknown') adds no flag;
\* in both cases the other flags are the stock-based flags the record would
\* otherwise have.
C19_OnlyUnparseableFlagged ==
    ClassifiedRecord =>
        /\ ("INVALID_EXPIRY_DATE" \in OutFlags) <=> ExpiryUnparseable
        /\ ExpiryMissing => OutFlags = FlagsWithoutExpiryIssue
        /\ ExpiryUnparseable =>
               OutFlags \ {"INVALID_EXPIRY_DATE"} = FlagsWithoutExpiryIssue

\* A LOW_STOCK record with an unparseable expiry date, flagged with both.
C19_Witness ==
    /\ ClassifiedRecord /\ BothNumeric
    /\ ExpiryUnparseable
    /\ InStock <= InRop
    /\ OutFlags = {"INVALID_EXPIRY_DATE", "LOW_STOCK"}

\* The classifier's inputs with a numeric stock level and reorder point.
NumericInputs ==
    {rec \in ClassifyInputs :
        /\ IsSome(rec)
        /\ IsSome(Val(rec).StockLevel)
        /\ IsSome(Val(rec).ReorderPoint)}

BothStockFlags == {"LOW_STOCK", "EXCESS_STOCK"}

\* C20 as stated: there is a record with numeric stock and reorder point whose
\* flags, under the default excess multiplier, contain both LOW_STOCK and
\* EXCESS_STOCK (looked for among all the inputs once the classifier has run).
C20_BothMayBeSet ==
    Classified =>
        \E rec \in NumericInputs :
            BothStockFlags \subseteq check_inventory_status(rec).flags

\* C20 amended: no record with numeric stock and reorder point is flagged with both
\* LOW_STOCK and EXCESS_STOCK under the default excess multiplier.
C20_NeverBothStockFlags ==
    (Classified /\ BothNumeric) => ~(BothStockFlags \subseteq OutFlags)

\* A record with stock equal to its positive reorder point: LOW_STOCK alone of the
\* two.
C20_Witness ==
    /\ Classified /\ BothNumeric
    /\ InRop > 0 /\ InStock = InRop
    /\ OutFlags \cap BothStockFlags = {"LOW_STOCK"}

(***************************************************************************)
(* Further properties of the pricing engine (SpecPrice)                    *)
(***************************************************************************)

DiscountFlags == {"NEAR_EXPIRY", "EXCESS_STOCK"}

\* A competitor price more than 10% above the current price was found, no
\* inventory flag asks for a discount and the sentiment is not NEGATIVE.
IncreaseCondition ==
    /\ IsSome(PriceIn.competitor_price)
    /\ 10 * Val(PriceIn.competitor_price) > 11 * InPrice
    /\ PriceIn.item.flags \cap DiscountFlags = {}
    /\ ~InNegative

\* current * 1.05, rounded to cents
IncreasedPrice == RoundHalfEven(InPrice * 105, 100)

\* C21 as stated: the recommended price is above the current price (current *
\* 1.05) if and only if the increase condition holds; in every other case it is
\* not above the current price.
C21_IncreaseIffCondition ==
    (PriceDone /\ ValidPrice) =>
        /\ (OutPrice > InPrice) <=> IncreaseCondition
        /\ IncreaseCondition => OutPrice = IncreasedPrice
        /\ ~IncreaseCondition => OutPrice <= InPrice

\* C21 amended: under the increase condition the price is current * 1.05 rounded
\* to cents and no discount is applied; this is above the current price for a
\* price above 0.10 and equal to it for a price below 0.10, where the rounding
\* gives the current price back.  In every other case the price is not above the
\* current price.
C21_IncreaseOrDiscount ==
    (PriceDone /\ ValidPrice) =>
        /\ IncreaseCondition => OutPrice = IncreasedPrice
        /\ (IncreaseCondition /\ InPrice > 10) => OutPrice > InPrice
        /\ (IncreaseCondition /\ InPrice < 10) => OutPrice = InPrice
        /\ ~IncreaseCondition => OutPrice <= InPrice

\* A price of 20.00 against a competitor at 22.01, no flag, no negative
\* sentiment: 21.00 is recommended.
C21_Witness ==
    /\ PriceDone /\ ValidPrice
    /\ IncreaseCondition
    /\ InPrice = 2000
    /\ PriceIn.competitor_price = Some(2201)
    /\ OutPrice = 2100

\* The result for the inputs of this state had the sentiment oracle answered s.
PricedWith(s) ==
    recommend_pricing_action(PriceIn.item, PriceIn.pricing_data, s,
                             PriceIn.competitor_price)

\* The price a result settles on.
PriceOf(res) == IF IsSome(res) THEN Val(res).RecommendedPrice ELSE InPrice

\* The Reason trail of a result, without its ReviewSentiment entry.
OtherReasons(res) ==
    LET NotSentiment(r) == r.tag /= "ReviewSentiment"
    IN  IF IsSome(res) THEN SelectSeq(Val(res).Reason, NotSentiment) ELSE <<>>

OffVocabulary == PriceIn.sentiment_result \notin SentimentLabels
ReviewsAsked ==
    /\ Val(PriceIn.pricing_data).CustomerReviews.kind = "text"
    /\ Val(PriceIn.pricing_data).CustomerReviews.len > 10

\* The discount (basis points) the inventory flags alone ask for.
FlagsOnlyDiscount ==
    IF "NEAR_EXPIRY" \in PriceIn.item.flags THEN 1500
    ELSE IF "EXCESS_STOCK" \in PriceIn.item.flags THEN 1000
    ELSE 0

\* C22 as stated: for a sentiment response outside POSITIVE, NEGATIVE, NEUTRAL
\* (no response included) the pricing result equals the result obtained with
\* NEUTRAL.
C22_OffVocabularyEqualsNeutral ==
    (PriceDone /\ ValidPrice /\ OffVocabulary) =>
        Val(price_result) = PricedWith(Some("NEUTRAL"))

\* C22 amended: for a sentiment response outside the three labels (no response
\* included) a result is produced, a proposal is emitted exactly when NEUTRAL
\* would emit one, with the same prices and the same Reason trail except that it
\* has no ReviewSentiment entry; without a competitor price the price is the one
\* the inventory flags alone give; and a sentiment answer changes the price only
\* when it is NEGATIVE, asked for over a review text, and a discount applies,
\* the discount then being multiplied by 1.2.
C22_OracleFailureIsNeutral ==
    (PriceDone /\ ValidPrice) =>
        /\ OffVocabulary =>
               /\ IsSome(Val(price_result)) <=> IsSome(PricedWith(Some("NEUTRAL")))
               /\ PriceOf(Val(price_result)) = PriceOf(PricedWith(Some("NEUTRAL")))
               /\ OtherReasons(Val(price_result))
                      = OtherReasons(PricedWith(Some("NEUTRAL")))
               /\ IsSome(Val(price_result)) =>
                      \A i \in DOMAIN Val(Val(price_result)).Reason :
                          Val(Val(price_result)).Reason[i].tag /= "ReviewSentiment"
        /\ PriceIn.competitor_price = None =>
               OutPrice = Discounted(FlagsOnlyDiscount)
        /\ ~(PriceIn.sentiment_result = Some("NEGATIVE") /\ ReviewsAsked) =>
               OutPrice = PriceOf(PricedWith(Some("NEUTRAL")))
        /\ (PriceIn.sentiment_result = Some("NEGATIVE") /\ ReviewsAsked
            /\ FiredDiscounts /= {}) =>
               \E d \in FiredDiscounts :
                   /\ \A other \in FiredDiscounts : other <= d
                   /\ OutPrice = RoundHalfEven(InPrice * (10000 - (d * 12) \div 10), 10000)

\* The oracle answered outside the vocabulary over a review text, a discount
\* fired, and the proposal has NEUTRAL's price without a ReviewSentiment reason
\* that NEUTRAL's proposal has.
C22_Witness ==
    /\ PriceDone /\ ValidPrice
    /\ PriceIn.sentiment_result = Some("MIXED")
    /\ ReviewsAsked
    /\ IsSome(Val(price_result))
    /\ OutPrice < InPrice
    /\ OutPrice = PriceOf(PricedWith(Some("NEUTRAL")))
    /\ Val(price_result) /= PricedWith(Some("NEUTRAL"))

(***************************************************************************)
(* Properties of the later stages of a run (Spec)                          *)
(***************************************************************************)

\* The entities with a replenishment proposal, and those with a pricing proposal
\* that lowers the price, in the state the resolver left.
OrderedEntities ==
    LET ps == Proposed(state.replenishment_proposals)
    IN  {<<ps[i].ProductID, ps[i].StoreID>> : i \in DOMAIN ps}

DiscountedEntities ==
    LET ps == Proposed(state.pricing_proposals)
    IN  {<<ps[i].ProductID, ps[i].StoreID>> :
            i \in {j \in DOMAIN ps : ps[j].RecommendedPrice < ps[j].CurrentPrice}}

\* C23: the resolver reports an overlap if and only if some entity (ProductID,
\* StoreID) has both a replenishment proposal and a pricing proposal that lowers
\* the price.
C23_OverlapByEntity ==
    (pc = "supplier_interact") =>
        ((resolution_log /= <<>>) <=> (OrderedEntities \cap DiscountedEntities /= {}))

(***************************************************************************)
(* Properties of order commit under failing inserts (SpecReplay)           *)
(***************************************************************************)

\* The proposals of a list whose position is not in failed, in their order.
Without(proposals, failed) ==
    LET idx == {i \in DOMAIN proposals : i \notin failed}
        Nth(k) == CHOOSE i \in idx : Cardinality({j \in idx : j < i}) = k - 1
    IN  [k \in 1..Cardinality(idx) |-> proposals[Nth(k)]]

\* C24: a failure to persist one order is not fatal to order commit: the orders
\* added and the placed_orders returned are exactly the proposals whose insert
\* did not fail, later ones included, in their order; placed_count is the
\* number of records added, and placed_count <= processed_count = the number
\* of proposals that reached the stage.
C24_FailedInsertIsSkipped ==
    [][(pc = "supplier_interact" /\ IsSome(oracle)) =>
          LET proposals == Proposed(state.replenishment_proposals)
              kept == Without(proposals, Val(oracle).supplier.insert_fail)
              res == state'.order_placement_results
              old == Len(orders)
          IN  /\ res.placed_count = Len(kept)
              /\ Len(res.placed_orders) = Len(kept)
              /\ Len(orders') = old + res.placed_count
              /\ SubSeq(orders', 1, old) = orders
              /\ \A k \in DOMAIN kept :
                     CommitOf(orders'[old + k], res.placed_orders[k], kept[k])
              /\ res.placed_count <= res.processed_count
              /\ res.processed_count = Len(proposals)
              /\ state'.error_message = state.error_message]_vars

\* Two proposals reached order commit, the insert of the first failed and the
\* second was placed.
C24_Witness ==
    /\ IsSome(oracle)
    /\ Val(oracle).supplier.insert_fail = {1}
    /\ pc = "END"
    /\ state.order_placement_results.kind = "Results"
    /\ state.order_placement_results.processed_count = 2
    /\ state.order_placement_results.placed_count = 1
    /\ state.order_placement_results.placed_orders[1].StoreID
           = Proposed(state.replenishment_proposals)[2].StoreID

(***************************************************************************)
(* Properties of the stored forecast points (SpecForecast)                 *)
(***************************************************************************)

\* The baselines a run can start from for entity e: the rounded mean of the sales
\* of the last history_days (0 without any), or the value of a trained model.
RecentSales(e) ==
    LET Recent(r) == r.Date >= -90 /\ r.Date <= 0
    IN  SelectSeq(demand_forecast[e], Recent)

Baselines(e) ==
    {IF RecentSales(e) = <<>> THEN 0
     ELSE RoundHalfEven(SumSales(RecentSales(e)), Len(RecentSales(e))),
     10}

\* The factor, in tenths, behind a model name.
FactorTenthsOf(model) ==
    IF model = "ML_Tool_SimpleAvg+LLM_Incr" THEN 11
    ELSE IF model = "ML_Tool_SimpleAvg+LLM_Decr" THEN 9
    ELSE 10

\* C25: every stored forecast point is max(0, round(baseline * f)) with f = 1.1
\* for INCREASE, 0.9 for DECREASE and 1.0 for every other answer of the oracle,
\* no answer included; no stored quantity is negative.
C25_AdjustedForecastStored ==
    \A r \in forecast_results :
        /\ r.qty >= 0
        /\ r.model \in ForecastModels
        /\ \E base \in Baselines(r.e) :
               r.qty = Max(0, RoundHalfEven(base * FactorTenthsOf(r.model), 10))

\* After two runs the table holds a point raised from 5 to 6 by INCREASE and one
\* lowered from 5 to 4 by DECREASE.
C25_Witness ==
    /\ Len(trace) = 2
    /\ FcRow(E1, 0, ModelIncr, 6) \in forecast_results
    /\ FcRow(E1, 0, ModelDecr, 4) \in forecast_results

(***************************************************************************)
(* Frame of the stages of a run (Spec)                                     *)
(***************************************************************************)

\* The slot of the state each stage writes its payload to.
OwnSlot(node) ==
    CASE node = "demand_forecast" -> "forecast_results"
      [] node = "inventory_monitor" -> "inventory_status"
      [] node = "replenishment_calc" -> "replenishment_proposals"
      [] node = "pricing_optimiser" -> "pricing_proposals"
      [] node = "supplier_interact" -> "order_placement_results"

PayloadStages == {"demand_forecast", "inventory_monitor", "replenishment_calc",
                  "pricing_optimiser", "supplier_interact"}

\* C26: the forecast, classifier, replenishment, pricing and order-commit stages
\* change only their own payload slot, and the error slot when the stage failed:
\* the working entity list and every other payload are the same after the stage
\* as before it.
C26_StageWritesOwnSlot ==
    [][(pc \in PayloadStages) =>
          LET own == OwnSlot(pc)
          IN  /\ \A slot \in (DOMAIN state) \ {own, "error_message"} :
                     state'[slot] = state[slot]
              /\ (state'.error_message /= state.error_message)
                     => (state'[own].kind = "ExecutionError")]_vars

\* A run reached its end with the replenishment stage failed, its error recorded,
\* and the payloads of the stages around it in place.
C26_Witness ==
    /\ pc = "END"
    /\ state.items_to_process = Some(<<E1, E2>>)
    /\ state.forecast_results.kind = "Results"
    /\ state.inventory_status.kind = "Results"
    /\ state.replenishment_proposals.kind = "ExecutionError"
    /\ IsSome(state.error_message)
    /\ state.pricing_proposals.kind = "Results"
    /\ state.pricing_proposals.proposal_count >= 1

(***************************************************************************)
(* Properties of the orders table over two runs (SpecReplay)               *)
(***************************************************************************)

\* C27: orders are append-only: every step keeps the order records there are,
\* unchanged and in place; only order commit adds records, exactly placed_count
\* of them; all order identifiers are distinct.
C27_OrdersAppendOnly ==
    [][/\ Len(orders') >= Len(orders)
       /\ SubSeq(orders', 1, Len(orders)) = orders
       /\ (pc /= "supplier_interact") => (orders' = orders)
       /\ (pc = "supplier_interact") =>
              (Len(orders') = Len(orders) + state'.order_placement_results.placed_count)
       /\ \A i, j \in DOMAIN orders' :
              (i /= j) => (orders'[i].OrderID /= orders'[j].OrderID)]_vars

\* The second run placed one order after the one the first run had placed; the
\* table holds both, with identifiers 1 and 2.
C27_Witness ==
    /\ IsSome(first_run)
    /\ pc = "END"
    /\ Val(first_run).order_placement_results.kind = "Results"
    /\ Val(first_run).order_placement_results.placed_count = 1
    /\ state.order_placement_results.kind = "Results"
    /\ state.order_placement_results.placed_count = 1
    /\ Len(orders) = 2
    /\ orders[1].OrderID = 1
    /\ orders[2].OrderID = 2
    /\ state.order_placement_results.placed_orders[1].OrderID = 2

(***************************************************************************)
(* Properties of the demand during lead time over stored forecasts         *)
(* (SpecForecast)                                                          *)
(***************************************************************************)

\* The quantities stored for entity e at target date d, under any model name.
StoredQuantities(e, d) == {r.qty : r \in {x \in forecast_results : x.e = e /\ x.date = d}}

\* The sums that take one stored quantity for each date of first..last that has
\* one, and nothing for a date that has none.
RECURSIVE OncePerDateSums(_, _, _)
OncePerDateSums(e, first, last) ==
    IF first > last THEN {0}
    ELSE LET here == IF StoredQuantities(e, first) = {} THEN {0}
                     ELSE StoredQuantities(e, first)
         IN  {q + s : q \in here, s \in OncePerDateSums(e, first + 1, last)}

\* C28: after any sequence of forecast runs, the demand during lead time that
\* replenishment reads for an entity counts each target date of the window
\* today+1 .. today+lead_time_days at most once: it is the sum of a single stored
\* quantity per date, whatever model names the rows were stored under.
C28_EachDateCountedOnce ==
    \A e \in Entities : \A lead \in 1..MaxLead :
        get_forecast_data(forecast_results, e[1], e[2], 1, lead)
            \in OncePerDateSums(e, 1, lead)

(***************************************************************************)
(* Properties of the forecast points against the replenishment window      *)
(* (Spec)                                                                  *)
(***************************************************************************)

\* The target dates of the points the forecast stage of this run stored for the
\* i-th entity it processed.
StoredDates(i) ==
    LET points == Val(state.forecast_results.forecasts[i].forecasts)
    IN  {points[k][1] : k \in DOMAIN points}

\* C29: within one run, for every entity whose forecast was stored and whose
\* lead_time_days is positive, the stored forecast points cover every date of
\* the replenishment window today+1 .. today+lead_time_days.
C29_ForecastCoversWindow ==
    (state.forecast_results.kind = "Results") =>
        \A i \in DOMAIN state.forecast_results.forecasts :
            LET e == state.forecast_results.forecasts[i].e
                lead_time_days == get_lead_time(inventory_monitoring, e[1], e[2])
            IN  (IsSome(state.forecast_results.forecasts[i].forecasts)
                 /\ lead_time_days > 0)
                    => \A d \in 1..lead_time_days : d \in StoredDates(i)

(***************************************************************************)
(* Properties of the OK flag (SpecClassify)                                *)
(***************************************************************************)

NotOkFlags == {"LOW_STOCK", "EXPIRED", "STOCK_LEVEL_UNKNOWN", "NO_DATA"}

\* The stock level of the classified record is a number.
StockNumeric == IsSome(inventory_data) /\ IsSome(Val(inventory_data).StockLevel)

\* C30: every classification result has a non-empty flag set; OK never comes with
\* LOW_STOCK, EXPIRED, STOCK_LEVEL_UNKNOWN or NO_DATA; and OK is present exactly
\* when the stock level is numeric, the record is not LOW_STOCK and the item is
\* not EXPIRED.
C30_OkFlagRules ==
    Classified =>
        /\ OutFlags /= {}
        /\ ("OK" \in OutFlags) => (OutFlags \cap NotOkFlags = {})
        /\ ("OK" \in OutFlags) <=> /\ StockNumeric
                                   /\ "LOW_STOCK" \notin OutFlags
                                   /\ "EXPIRED" \notin OutFlags

\* A record with excess stock expiring within the threshold: OK together with
\* EXCESS_STOCK and NEAR_EXPIRY.
C30_Witness ==
    /\ Classified /\ StockNumeric
    /\ OutFlags = {"EXCESS_STOCK", "NEAR_EXPIRY", "OK"}

====
